---- MODULE Spec2Model ----
(***************************************************************************)
(* Fork Watchtower (src/bin/hypernode/src/fork_watchtower.rs) and the      *)
(* header-chain functions of src/btc-light-client/core/src/light_client.rs.*)
(*                                                                         *)
(* Specifications over one set of variables:                               *)
(*   Spec          the supervisor main loop of ForkWatchtower::run with    *)
(*                 process_fork as a program-counter state machine;        *)
(*   SpecLive      Spec on the default and on small budgets, with the      *)
(*                 fairness of the runtime's scheduling;                   *)
(*   SpecDetect    detect_fork, read by read, on bounded LC / BDE chains   *)
(*                 that the indexers write meanwhile;                      *)
(*   SpecClassify  classify_revert_error applied to bounded payloads;      *)
(*   SpecBackoff   calculate_backoff_with_jitter applied to bounded        *)
(*                 arguments;                                              *)
(*   SpecWork      calculate_cumulative_work applied to bounded chains;    *)
(*   SpecValidate  validate_header_chain applied to bounded chains;        *)
(*   SpecWatch     the root-watch task of run and the main task's first    *)
(*                 send to its channel.                                    *)
(***************************************************************************)
EXTENDS Integers, Sequences, FiniteSets, TLC

VARIABLES
    config,                 \* ForkWatchtowerConfig handed to process_fork
    currently_processing,   \* Arc<Mutex<bool>>, the single-flight flag
    main_pc,                \* position of the main loop task
    is_processing,          \* the main loop's local copy of the flag
    fork_type,              \* what the latest detect_fork call returned
    pf_pc,                  \* position inside process_fork
    ctx,                    \* RetryContext
    poll_i,                 \* loop variable i of the CDE catch-up loop
    pf_result,              \* what process_fork returned
    tx_result,              \* outcome of the latest broadcast of this invocation
    last_call,              \* arguments of the latest updateLightClient call
    calls,                  \* collaborator calls made by the current invocation
    steps,                  \* collaborator calls made in the current attempt, in order
    reverts,                \* reverts seen by the current invocation, per error kind
    active,                 \* process_fork invocations entered and not yet returned
    guards,                 \* the MMR read guards process_fork holds
    expected_mmr_root,      \* the root the latest catch-up waits for ("none": no catch-up)
    current_root,           \* the latest CDE root the catch-up read ("none": no read yet)
                            \* (poll_i and these two keep the record of the latest
                            \* catch-up until the next detect_fork reads)
    fn_in,                  \* the MMRs detect_fork reads; input of the function under test
    fn_out                  \* the detect_fork call under way; result of the function under test

main_vars == <<config, currently_processing, main_pc, is_processing, fork_type,
               pf_pc, ctx, poll_i, pf_result, tx_result, last_call, calls, steps,
               reverts, active, guards, expected_mmr_root, current_root>>
fn_vars == <<fn_in, fn_out>>
vars == <<main_vars, fn_vars>>

----------------------------------------------------------------------------
(* Bounds of the model.                                                    *)

\* longest LC / BDE chain (leaf count) given to detect_fork
MaxLen == 3
\* largest cumulative chainwork of a leaf
MaxWork == 1
\* a revert message is the concatenation of at most MaxParts fragments
MaxParts == 2
\* config.max_attempts ranges over 0..MaxAttemptsCfg
MaxAttemptsCfg == 5
\* config.proof_regen_attempts ranges over 0..MaxRegenCfg
MaxRegenCfg == 3

\* the budgets of the configurations of SpecLive range over 0..MaxBudgetLive,
\* next to the default configuration's
MaxBudgetLive == 2
\* calculate_backoff_with_jitter is applied to attempt numbers 1..MaxAttemptArg,
\* and to those around 2^31 and u32::MAX
MaxAttemptArg == 5

\* longest header chain given to validate_header_chain and
\* calculate_cumulative_work
MaxHeaders == 2
\* largest block proof (work) of a single header
MaxProof == 3
MaxRounds == 4        \* rounds of the root-watch task that are recorded
\* indexer writes that can fall into one call of detect_fork
MaxWrites == 2

\* the catch-up loop `for i in 1..=15`
CatchupPolls == 15

Min(a, b) == IF a <= b THEN a ELSE b

----------------------------------------------------------------------------
(* Leaves and MMRs.  A BlockLeaf is (block_hash, height, chainwork); an    *)
(* MMR is the sequence of its leaves, leaf index i at position i + 1.      *)

BlockHashes == {"a", "b"}

BlockLeaf == [block_hash : BlockHashes, height : 0..(MaxLen - 1), chainwork : 0..MaxWork]

\* leaf.hash::<Keccak256Hasher>(): a collision-free digest of the three fields
hash(leaf) == <<"keccak", leaf.block_hash, leaf.height, leaf.chainwork>>

chainwork_as_u256(leaf) == leaf.chainwork

get_leaf_count(mmr) == Len(mmr)

\* Option<BlockLeaf>: the leaf at a leaf index, None past the end
get_leaf_by_leaf_index(mmr, i) ==
    IF i + 1 \in 1..Len(mmr) THEN [some |-> TRUE, leaf |-> mmr[i + 1]]
    ELSE [some |-> FALSE]

\* a lookup keyed by the block hash alone, not by the leaf hash
get_leaf_by_block_hash_only(mmr, h) ==
    IF \E i \in 1..Len(mmr) : mmr[i].block_hash = h[2]
    THEN [some |-> TRUE,
          leaf |-> mmr[CHOOSE i \in 1..Len(mmr) : mmr[i].block_hash = h[2]]]
    ELSE [some |-> FALSE]

\* Option<BlockLeaf>: the leaf with a given leaf hash
get_leaf_by_leaf_hash(mmr, h) ==
    IF \E i \in 1..Len(mmr) : hash(mmr[i]) = h
    THEN [some |-> TRUE, leaf |-> mmr[CHOOSE i \in 1..Len(mmr) : hash(mmr[i]) = h]]
    ELSE [some |-> FALSE]

\* The MMRs an indexer can hold: leaf i records height i, and cumulative
\* work does not decrease along the chain.
IsChain(mmr) ==
    /\ \A i \in 1..Len(mmr) : mmr[i].height = i - 1
    /\ \A i \in 1..(Len(mmr) - 1) : mmr[i].chainwork <= mmr[i + 1].chainwork

Chains ==
    UNION { { c \in [1..n -> BlockLeaf] : IsChain(c) } : n \in 0..MaxLen }

----------------------------------------------------------------------------
(* detect_fork.  `fail` names the engine read that returns an error, if    *)
(* the call gets that far ("none": every read succeeds).                   *)

DetectFails == {"none", "lc_count", "lc_leaf", "bde_count", "bde_leaf", "bde_lookup"}

NoFork == [tag |-> "None"]
DetectErr(what) == [tag |-> "Err", what |-> what]

\* a tie-break that follows the BDE on equal work
compare_tips_no_tie(lc_tip_leaf, bde_tip_leaf) ==
    IF hash(lc_tip_leaf) = hash(bde_tip_leaf) THEN "agree"
    ELSE IF chainwork_as_u256(lc_tip_leaf) > chainwork_as_u256(bde_tip_leaf) THEN "lc_ahead"
    ELSE "bde_ahead"

\* the three early exits on the two tips, else the BDE is ahead
compare_tips(lc_tip_leaf, bde_tip_leaf) ==
    IF hash(lc_tip_leaf) = hash(bde_tip_leaf) THEN "agree"
    ELSE IF chainwork_as_u256(lc_tip_leaf) = chainwork_as_u256(bde_tip_leaf) THEN "equal_work"
    ELSE IF chainwork_as_u256(lc_tip_leaf) > chainwork_as_u256(bde_tip_leaf) THEN "lc_ahead"
    ELSE "bde_ahead"

\* the two fork kinds exchanged
fork_of_lookup_swapped(lc_tip_in_bde, lc_tip_height, bde_tip_height, lc_tip_chainwork, bde_tip_chainwork) ==
    IF ~lc_tip_in_bde.some
    THEN [tag |-> "MissingBlocks",
          lc_tip_height |-> lc_tip_height, bde_tip_height |-> bde_tip_height]
    ELSE [tag |-> "Reorganization",
          lc_tip_height |-> lc_tip_height, bde_tip_height |-> bde_tip_height,
          lc_tip_chainwork |-> lc_tip_chainwork, bde_tip_chainwork |-> bde_tip_chainwork]

\* the fork reported once the BDE is known to be ahead
fork_of_lookup(lc_tip_in_bde, lc_tip_height, bde_tip_height, lc_tip_chainwork, bde_tip_chainwork) ==
    IF lc_tip_in_bde.some
    THEN [tag |-> "MissingBlocks",
          lc_tip_height |-> lc_tip_height, bde_tip_height |-> bde_tip_height]
    ELSE [tag |-> "Reorganization",
          lc_tip_height |-> lc_tip_height, bde_tip_height |-> bde_tip_height,
          lc_tip_chainwork |-> lc_tip_chainwork, bde_tip_chainwork |-> bde_tip_chainwork]

\* the BDE lookup of the LC tip
lookup_lc_tip(bde, lc_tip_hash) == get_leaf_by_leaf_hash(bde, lc_tip_hash)

detect_fork(lc, bde, fail) ==
    IF fail = "lc_count" THEN DetectErr("lc_count")
    ELSE IF get_leaf_count(lc) = 0 THEN NoFork
    ELSE LET lc_tip_height == get_leaf_count(lc) - 1 IN
    IF lc_tip_height = 0 THEN NoFork
    ELSE LET lc_tip == get_leaf_by_leaf_index(lc, lc_tip_height) IN
    IF fail = "lc_leaf" \/ ~lc_tip.some THEN DetectErr("lc_leaf")
    ELSE IF fail = "bde_count" THEN DetectErr("bde_count")
    ELSE IF get_leaf_count(bde) = 0 THEN NoFork
    ELSE LET bde_tip_height == get_leaf_count(bde) - 1
             bde_tip == get_leaf_by_leaf_index(bde, bde_tip_height) IN
    IF fail = "bde_leaf" \/ ~bde_tip.some THEN DetectErr("bde_leaf")
    ELSE IF compare_tips(lc_tip.leaf, bde_tip.leaf) # "bde_ahead" THEN NoFork
    ELSE IF fail = "bde_lookup" THEN DetectErr("bde_lookup")
    ELSE fork_of_lookup(lookup_lc_tip(bde, hash(lc_tip.leaf)),
                        lc_tip_height, bde_tip_height,
                        chainwork_as_u256(lc_tip.leaf), chainwork_as_u256(bde_tip.leaf))

IsFork(r) == r.tag \in {"MissingBlocks", "Reorganization"}

----------------------------------------------------------------------------
(* classify_revert_error.  A message is a sequence of characters; a revert *)
(* payload is the typed error its data decodes to ("None": it does not     *)
(* decode) and the message.                                                *)

\* the variants of RiftExchangeErrors the decoder can produce that the match
\* names, and one it does not name
DecodedErrors ==
    {"None", "InvalidBlockInclusionProof", "InvalidSwapBlockInclusionProof",
     "ChainworkTooLow", "NotEnoughConfirmationBlocks", "NotEnoughConfirmations",
     "RootWasNotUpdated"}

RevertErrorType ==
    {"ProofVerificationFailure", "SimulationFailure", "NonceError", "GasError",
     "SlippageError", "FrontrunningProtection", "InvariantViolation",
     "UnknownRevert", "NetworkError", "TransientError"}

\* char::to_lowercase: every upper-case letter of the alphabet the messages
\* are written in has a one-character lower case, except U+0130 (capital I
\* with dot above), whose lower case is the two characters i, U+0307; every
\* other character of the model is its own lower case
LowerChar(c) ==
    CASE c = "A" -> <<"a">> [] c = "B" -> <<"b">> [] c = "C" -> <<"c">> [] c = "D" -> <<"d">>
      [] c = "E" -> <<"e">> [] c = "F" -> <<"f">> [] c = "G" -> <<"g">> [] c = "H" -> <<"h">>
      [] c = "I" -> <<"i">> [] c = "J" -> <<"j">> [] c = "K" -> <<"k">> [] c = "L" -> <<"l">>
      [] c = "M" -> <<"m">> [] c = "N" -> <<"n">> [] c = "O" -> <<"o">> [] c = "P" -> <<"p">>
      [] c = "Q" -> <<"q">> [] c = "R" -> <<"r">> [] c = "S" -> <<"s">> [] c = "T" -> <<"t">>
      [] c = "U" -> <<"u">> [] c = "V" -> <<"v">> [] c = "W" -> <<"w">> [] c = "X" -> <<"x">>
      [] c = "Y" -> <<"y">> [] c = "Z" -> <<"z">>
      [] c = "U+0130" -> <<"i", "U+0307">>
      [] OTHER -> <<c>>

\* str::to_lowercase: the lower cases of the characters, concatenated
RECURSIVE to_lowercase(_)
to_lowercase(s) ==
    IF s = <<>> THEN <<>> ELSE LowerChar(Head(s)) \o to_lowercase(Tail(s))

\* str::contains: pat occurs in s as a contiguous substring
contains(s, pat) ==
    \E i \in 0..(Len(s) - Len(pat)) : SubSeq(s, i + 1, i + Len(pat)) = pat

PatInvalidProof == <<"i", "n", "v", "a", "l", "i", "d", " ", "p", "r", "o", "o", "f">>
PatVerificationFailed == <<"v", "e", "r", "i", "f", "i", "c", "a", "t", "i", "o", "n", " ", "f", "a", "i", "l", "e", "d">>
PatInclusionProof == <<"i", "n", "c", "l", "u", "s", "i", "o", "n", " ", "p", "r", "o", "o", "f">>
PatNonce == <<"n", "o", "n", "c", "e">>
PatGas == <<"g", "a", "s">>
PatSlippage == <<"s", "l", "i", "p", "p", "a", "g", "e">>
PatInvariant == <<"i", "n", "v", "a", "r", "i", "a", "n", "t">>
PatAssertion == <<"a", "s", "s", "e", "r", "t", "i", "o", "n">>

\* RetryStrategy; backoff_multiplier is held in tenths (1.5 is 15)
RetryStrategy(should_retry, should_regenerate_proof, delay_ms, backoff_multiplier, max_attempts, error_message) ==
    [should_retry |-> should_retry,
     should_regenerate_proof |-> should_regenerate_proof,
     delay_ms |-> delay_ms,
     backoff_multiplier |-> backoff_multiplier,
     max_attempts |-> max_attempts,
     error_message |-> error_message]

Classified(kind, strategy) == [kind |-> kind, strategy |-> strategy]

\* the typed arm with ChainworkTooLow given a retryable strategy
classify_decoded_chainwork_retryable(decoded_error) ==
    IF decoded_error \in {"InvalidBlockInclusionProof", "InvalidSwapBlockInclusionProof"}
    THEN [matched |-> TRUE,
          result |-> Classified("ProofVerificationFailure",
              RetryStrategy(TRUE, TRUE, 1000, 15, 3,
                            <<"invalid proof verification: ", decoded_error>>))]
    ELSE IF decoded_error = "ChainworkTooLow"
    THEN [matched |-> TRUE,
          result |-> Classified("InvariantViolation",
              RetryStrategy(TRUE, FALSE, 1000, 15, 3,
                            <<"invariant violation: ", decoded_error>>))]
    ELSE IF decoded_error \in {"NotEnoughConfirmationBlocks", "NotEnoughConfirmations"}
    THEN [matched |-> TRUE,
          result |-> Classified("InvariantViolation",
              RetryStrategy(FALSE, FALSE, 0, 0, 0,
                            <<"not enough confirmation blocks: ", decoded_error>>))]
    ELSE [matched |-> FALSE]

\* the typed arm: matched is FALSE when the payload does not decode or
\* decodes to a variant the match leaves to the message
classify_decoded(decoded_error) ==
    IF decoded_error \in {"InvalidBlockInclusionProof", "InvalidSwapBlockInclusionProof"}
    THEN [matched |-> TRUE,
          result |-> Classified("ProofVerificationFailure",
              RetryStrategy(TRUE, TRUE, 1000, 15, 3,
                            <<"invalid proof verification: ", decoded_error>>))]
    ELSE IF decoded_error = "ChainworkTooLow"
    THEN [matched |-> TRUE,
          result |-> Classified("InvariantViolation",
              RetryStrategy(FALSE, FALSE, 0, 0, 0,
                            <<"invariant violation: ", decoded_error>>))]
    ELSE IF decoded_error \in {"NotEnoughConfirmationBlocks", "NotEnoughConfirmations"}
    THEN [matched |-> TRUE,
          result |-> Classified("InvariantViolation",
              RetryStrategy(FALSE, FALSE, 0, 0, 0,
                            <<"not enough confirmation blocks: ", decoded_error>>))]
    ELSE [matched |-> FALSE]

\* the invariant / assertion test moved to the front
classify_message_invariant_first(error_message) ==
    IF contains(error_message, PatInvariant) \/ contains(error_message, PatAssertion)
    THEN Classified("InvariantViolation",
                    RetryStrategy(FALSE, FALSE, 0, 0, 0, error_message))
    ELSE IF \/ contains(error_message, PatInvalidProof)
            \/ contains(error_message, PatVerificationFailed)
            \/ contains(error_message, PatInclusionProof)
    THEN Classified("ProofVerificationFailure",
                    RetryStrategy(TRUE, TRUE, 1000, 15, 3, error_message))
    ELSE IF contains(error_message, PatNonce)
    THEN Classified("NonceError", RetryStrategy(TRUE, FALSE, 500, 12, 5, error_message))
    ELSE IF contains(error_message, PatGas)
    THEN Classified("GasError", RetryStrategy(TRUE, FALSE, 1000, 15, 4, error_message))
    ELSE IF contains(error_message, PatSlippage)
    THEN Classified("SlippageError", RetryStrategy(TRUE, TRUE, 2000, 20, 3, error_message))
    ELSE Classified("UnknownRevert", RetryStrategy(TRUE, FALSE, 2000, 20, 3, error_message))

\* the substring chain with the slippage arm returning FrontrunningProtection
classify_message_frontrunning(error_message) ==
    IF \/ contains(error_message, PatInvalidProof)
       \/ contains(error_message, PatVerificationFailed)
       \/ contains(error_message, PatInclusionProof)
    THEN Classified("ProofVerificationFailure",
                    RetryStrategy(TRUE, TRUE, 1000, 15, 3, error_message))
    ELSE IF contains(error_message, PatNonce)
    THEN Classified("NonceError", RetryStrategy(TRUE, FALSE, 500, 12, 5, error_message))
    ELSE IF contains(error_message, PatGas)
    THEN Classified("GasError", RetryStrategy(TRUE, FALSE, 1000, 15, 4, error_message))
    ELSE IF contains(error_message, PatSlippage)
    THEN Classified("FrontrunningProtection",
                    RetryStrategy(TRUE, TRUE, 2000, 20, 3, error_message))
    ELSE IF contains(error_message, PatInvariant) \/ contains(error_message, PatAssertion)
    THEN Classified("InvariantViolation",
                    RetryStrategy(FALSE, FALSE, 0, 0, 0, error_message))
    ELSE Classified("UnknownRevert", RetryStrategy(TRUE, FALSE, 2000, 20, 3, error_message))

\* the substring chain on the lower-cased message
classify_message(error_message) ==
    IF \/ contains(error_message, PatInvalidProof)
       \/ contains(error_message, PatVerificationFailed)
       \/ contains(error_message, PatInclusionProof)
    THEN Classified("ProofVerificationFailure",
                    RetryStrategy(TRUE, TRUE, 1000, 15, 3, error_message))
    ELSE IF contains(error_message, PatNonce)
    THEN Classified("NonceError", RetryStrategy(TRUE, FALSE, 500, 12, 5, error_message))
    ELSE IF contains(error_message, PatGas)
    THEN Classified("GasError", RetryStrategy(TRUE, FALSE, 1000, 15, 4, error_message))
    ELSE IF contains(error_message, PatSlippage)
    THEN Classified("SlippageError", RetryStrategy(TRUE, TRUE, 2000, 20, 3, error_message))
    ELSE IF contains(error_message, PatInvariant) \/ contains(error_message, PatAssertion)
    THEN Classified("InvariantViolation",
                    RetryStrategy(FALSE, FALSE, 0, 0, 0, error_message))
    ELSE Classified("UnknownRevert", RetryStrategy(TRUE, FALSE, 2000, 20, 3, error_message))

\* the message consulted before the typed error
classify_revert_error_message_first(revert_info) ==
    LET by_message == classify_message(to_lowercase(revert_info.message)) IN
    IF by_message.kind # "UnknownRevert" THEN by_message
    ELSE IF classify_decoded(revert_info.decoded).matched
    THEN classify_decoded(revert_info.decoded).result
    ELSE by_message

classify_revert_error(revert_info) ==
    IF classify_decoded(revert_info.decoded).matched
    THEN classify_decoded(revert_info.decoded).result
    ELSE classify_message(to_lowercase(revert_info.message))

\* The messages of the model: concatenations of at most MaxParts fragments.
Fragments ==
    { <<"e", "x", "e", "c", "u", "t", "i", "o", "n", " ", "r", "e", "v", "e", "r", "t", "e", "d">>, <<" ">>,
      <<"I", "n", "v", "a", "l", "i", "d", " ", "P", "r", "o", "o", "f">>, <<"V", "E", "R", "I", "F", "I", "C", "A", "T", "I", "O", "N", " ", "F", "A", "I", "L", "E", "D">>, <<"I", "N", "C", "L", "U", "S", "I", "O", "N", " ", "P", "R", "O", "O", "F">>,
      <<"B", "A", "D", " ", "N", "o", "n", "c", "e">>, <<"U+0130">>, <<"G", "A", "S">>, <<"g", "a">>, <<"s">>, <<"s", "l", "i", "p", "p", "a", "g", "e">>, <<"I", "N", "V", "A", "R", "I", "A", "N", "T">>, <<"A", "s", "s", "e", "r", "t", "i", "o", "n">> }

RECURSIVE MessagesOf(_)
MessagesOf(n) ==
    IF n = 0 THEN { <<>> }
    ELSE MessagesOf(n - 1) \cup { m \o f : m \in MessagesOf(n - 1), f \in Fragments }

Messages == MessagesOf(MaxParts)

RevertInfo == [decoded : DecodedErrors, message : Messages]

----------------------------------------------------------------------------
(* process_fork and the supervisor (ForkWatchtower::run).                  *)

None == [some |-> FALSE]
Some(v) == [some |-> TRUE, v |-> v]

\* ForkWatchtowerConfig::default()
DefaultPollIntervalSecs == 30
DefaultMaxAttempts == 5
DefaultBaseRetryDelayMs == 1000
DefaultMaxRetryDelayMs == 60000
DefaultRetryJitterMs == 500
DefaultProofRegenAttempts == 3

\* The configurations of the model: the delays of the default configuration
\* with every small pair of budgets, the default pair among them.
Configs ==
    { [poll_interval |-> DefaultPollIntervalSecs,
       max_attempts |-> a,
       base_retry_delay_ms |-> DefaultBaseRetryDelayMs,
       max_retry_delay_ms |-> DefaultMaxRetryDelayMs,
       retry_jitter_ms |-> DefaultRetryJitterMs,
       proof_regen_attempts |-> r] :
          a \in (0..MaxAttemptsCfg) \cup {DefaultMaxAttempts},
          r \in (0..MaxRegenCfg) \cup {DefaultProofRegenAttempts} }

\* MMR roots the CDE and the chain-transition builder can report
Roots == {"root1", "root2"}

\* let mut ctx = RetryContext { .. }
RetryContextNew ==
    [attempt |-> 0,
     proof_regenerations |-> 0,
     chain_transition |-> None,
     block_proof_params |-> None,
     last_error |-> None,
     last_error_type |-> None,
     proof_bytes |-> <<>>,
     public_values |-> None]

\* no broadcast made yet
NoTx == [tag |-> "None", error_type |-> "None"]

NoCalls == [build |-> 0, prove |-> 0, broadcast |-> 0, sleep |-> 0, cde_read |-> 0]
NoReverts == [k \in RevertErrorType |-> 0]

\* the value build_chain_transition_for_light_client_update returns on its
\* n-th call of this processing, for the chain state it saw
ChainTransition(root, n) == [newMmrRoot |-> root, build |-> n]

\* rift_program_input.get_auxiliary_light_client_data(): the public values
LightClientPublicInput(chain_transition) ==
    [newMmrRoot |-> chain_transition.newMmrRoot, build |-> chain_transition.build]

\* BlockProofParams { priorMmrRoot, newMmrRoot, tipBlockLeaf, compressedBlockLeaves }
BlockProofParams(public_values) ==
    [newMmrRoot |-> public_values.newMmrRoot, build |-> public_values.build]

\* proof.proof: Some(proof) => proof.bytes(), None => vec![]
proof_bytes_of(proof, chain_transition) ==
    IF proof = "proof" THEN <<"proof", chain_transition.build>> ELSE <<>>

\* the reverts the broadcaster reports in Spec
MainReverts ==
    { [decoded |-> "InvalidBlockInclusionProof", message |-> <<"e", "x", "e", "c", "u", "t", "i", "o", "n", " ", "r", "e", "v", "e", "r", "t", "e", "d">>],
      [decoded |-> "ChainworkTooLow", message |-> <<"e", "x", "e", "c", "u", "t", "i", "o", "n", " ", "r", "e", "v", "e", "r", "t", "e", "d">>],
      [decoded |-> "RootWasNotUpdated", message |-> <<"e", "x", "e", "c", "u", "t", "i", "o", "n", " ", "r", "e", "v", "e", "r", "t", "e", "d">>],
      [decoded |-> "None", message |-> <<"I", "n", "v", "a", "l", "i", "d", " ", "P", "r", "o", "o", "f">>],
      [decoded |-> "None", message |-> <<"N", "o", "n", "c", "e">>],
      [decoded |-> "None", message |-> <<"G", "A", "S">>],
      [decoded |-> "None", message |-> <<"s", "l", "i", "p", "p", "a", "g", "e">>],
      [decoded |-> "None", message |-> <<"I", "N", "V", "A", "R", "I", "A", "N", "T">>] }

\* the error string of TransactionExecutionResult::UnknownError
UnknownErrorText == <<"t", "i", "m", "e", "o", "u", "t">>

\* line 374 without the ProofVerificationFailure disjunct
needs_proof_first_only(c) == c.proof_regenerations = 0

\* line 374 without the proof_regenerations == 0 disjunct
needs_proof_on_failure_only(c) == c.last_error_type = Some("ProofVerificationFailure")

\* line 374 with the test on the kind of the last error dropped: any
\* recorded error regenerates
needs_proof_after_any_error(c) ==
    \/ c.proof_regenerations = 0
    \/ c.last_error_type # None

\* the proof is (re)generated in this attempt
needs_proof(c) ==
    \/ c.proof_regenerations = 0
    \/ c.last_error_type = Some("ProofVerificationFailure")

\* line 395 with > for >=
proof_budget_exhausted_off_by_one(c, cfg) ==
    c.proof_regenerations > cfg.proof_regen_attempts

\* the proof budget is used up
proof_budget_exhausted(c, cfg) ==
    c.proof_regenerations >= cfg.proof_regen_attempts

\* the while condition with <= for <
attempts_left_inclusive(c, cfg) == c.attempt <= cfg.max_attempts

\* the while condition
attempts_left(c, cfg) == c.attempt < cfg.max_attempts

Terminal(err) == [terminal |-> TRUE, err |-> err]
Continue(coerced, base, mult, cap) ==
    [terminal |-> FALSE, last_error_type |-> coerced,
     sleep |-> [base_delay_ms |-> base, multiplier |-> mult, max_delay_ms |-> cap]]

\* the match on error_type with the regeneration test of line 492 dropped
revert_handling_always_retry_proof(error_type, c, cfg) ==
    CASE error_type = "ProofVerificationFailure" ->
            Continue(error_type, cfg.base_retry_delay_ms \div 2, 15, cfg.max_retry_delay_ms)
      [] error_type = "NonceError" ->
            Continue(error_type, 500, 12, cfg.max_retry_delay_ms)
      [] error_type = "GasError" ->
            Continue(error_type, cfg.base_retry_delay_ms, 15, cfg.max_retry_delay_ms)
      [] error_type = "InvariantViolation" -> Terminal("Err:invariant_violation")
      [] error_type \in {"FrontrunningProtection", "SlippageError"} ->
            Continue("ProofVerificationFailure", cfg.base_retry_delay_ms, 20, cfg.max_retry_delay_ms)
      [] OTHER ->
            Continue(error_type, cfg.base_retry_delay_ms, 20, cfg.max_retry_delay_ms)

\* the match on error_type with the InvariantViolation arm falling to the default
revert_handling_retry_invariant(error_type, c, cfg) ==
    CASE error_type = "ProofVerificationFailure" ->
            IF c.proof_regenerations < cfg.proof_regen_attempts
            THEN Continue(error_type, cfg.base_retry_delay_ms \div 2, 15, cfg.max_retry_delay_ms)
            ELSE Terminal("Err:proof_verification")
      [] error_type = "NonceError" ->
            Continue(error_type, 500, 12, cfg.max_retry_delay_ms)
      [] error_type = "GasError" ->
            Continue(error_type, cfg.base_retry_delay_ms, 15, cfg.max_retry_delay_ms)
      [] error_type \in {"FrontrunningProtection", "SlippageError"} ->
            Continue("ProofVerificationFailure", cfg.base_retry_delay_ms, 20, cfg.max_retry_delay_ms)
      [] OTHER ->
            Continue(error_type, cfg.base_retry_delay_ms, 20, cfg.max_retry_delay_ms)

\* the match on error_type with the FrontrunningProtection | SlippageError
\* arm falling to the default, which leaves last_error_type as it was set
\* at line 486
revert_handling_no_coercion(error_type, c, cfg) ==
    CASE error_type = "ProofVerificationFailure" ->
            IF c.proof_regenerations < cfg.proof_regen_attempts
            THEN Continue(error_type, cfg.base_retry_delay_ms \div 2, 15, cfg.max_retry_delay_ms)
            ELSE Terminal("Err:proof_verification")
      [] error_type = "NonceError" ->
            Continue(error_type, 500, 12, cfg.max_retry_delay_ms)
      [] error_type = "GasError" ->
            Continue(error_type, cfg.base_retry_delay_ms, 15, cfg.max_retry_delay_ms)
      [] error_type = "InvariantViolation" -> Terminal("Err:invariant_violation")
      [] OTHER ->
            Continue(error_type, cfg.base_retry_delay_ms, 20, cfg.max_retry_delay_ms)

\* the match on error_type of a revert: return the error, or set
\* last_error_type, sleep with these backoff arguments and continue
\* (multipliers in tenths)
revert_handling(error_type, c, cfg) ==
    CASE error_type = "ProofVerificationFailure" ->
            IF c.proof_regenerations < cfg.proof_regen_attempts
            THEN Continue(error_type, cfg.base_retry_delay_ms \div 2, 15, cfg.max_retry_delay_ms)
            ELSE Terminal("Err:proof_verification")
      [] error_type = "NonceError" ->
            Continue(error_type, 500, 12, cfg.max_retry_delay_ms)
      [] error_type = "GasError" ->
            Continue(error_type, cfg.base_retry_delay_ms, 15, cfg.max_retry_delay_ms)
      [] error_type = "InvariantViolation" -> Terminal("Err:invariant_violation")
      [] error_type \in {"FrontrunningProtection", "SlippageError"} ->
            Continue("ProofVerificationFailure", cfg.base_retry_delay_ms, 20, cfg.max_retry_delay_ms)
      [] OTHER ->
            Continue(error_type, cfg.base_retry_delay_ms, 20, cfg.max_retry_delay_ms)

\* the reset of lines 197-200 missing
flag_after_processing_kept(result) == TRUE

\* the flag left set when the processing failed
flag_after_processing_ok_only(result) == result # "Ok"

\* the flag is cleared whatever process_fork returned
flag_after_processing(result) == FALSE

----------------------------------------------------------------------------
(* calculate_backoff_with_jitter.  A multiplier is held in tenths and     *)
(* stands for the f64 nearest to it.  An f64 is a mantissa below 2^53 and  *)
(* a power of two; the cast of the base, every product inside powi and the *)
(* product with the base are each rounded to 53 bits, to nearest and on a  *)
(* tie to even, as the f64 arithmetic of line 725 rounds them.             *)

\* u64, u32 and U256 are held at their width, as sequences of 16-bit limbs,
\* least significant first
LimbBase == 65536

\* the limbs of a + b from limb i on, with the carry out of the top limb
RECURSIVE add_limbs(_, _, _, _, _)
add_limbs(a, b, i, carry, limbs) ==
    IF i > Len(a) THEN [limbs |-> limbs, carry |-> carry]
    ELSE LET sum == a[i] + b[i] + carry IN
         add_limbs(a, b, i + 1, sum \div LimbBase, Append(limbs, sum % LimbBase))

\* the limbs of x * m for a small m, one limb longer when the product is
RECURSIVE mul_limbs(_, _, _, _, _)
mul_limbs(x, m, i, carry, limbs) ==
    IF i > Len(x) THEN (IF carry = 0 THEN limbs ELSE Append(limbs, carry))
    ELSE LET product == x[i] * m + carry IN
         mul_limbs(x, m, i + 1, product \div LimbBase, Append(limbs, product % LimbBase))

\* the limbs of x \div d for a small d, from the top limb down
RECURSIVE div_limbs(_, _, _, _, _)
div_limbs(x, d, i, rem, limbs) ==
    IF i = 0 THEN limbs
    ELSE LET cur == rem * LimbBase + x[i] IN
         div_limbs(x, d, i - 1, cur % d, <<cur \div d>> \o limbs)

\* a <= b for two numbers of as many limbs: equal, or b is larger at the
\* topmost limb that differs
limbs_le(a, b) ==
    \/ a = b
    \/ \E i \in 1..Len(a) :
          /\ a[i] < b[i]
          /\ \A j \in (i + 1)..Len(a) : a[j] = b[j]

U64LimbCount == 4
\* the u64 of a number below 2^31
u64(n) == <<n % LimbBase, n \div LimbBase, 0, 0>>
U64Max == [i \in 1..U64LimbCount |-> LimbBase - 1]
u64_min(a, b) == IF limbs_le(a, b) THEN a ELSE b

RECURSIVE BitLen(_)
BitLen(n) == IF n = 0 THEN 0 ELSE 1 + BitLen(n \div 2)

LimbBits == 16

RECURSIVE zero_limbs(_)
zero_limbs(n) == IF n <= 0 THEN <<>> ELSE <<0>> \o zero_limbs(n - 1)

\* x on exactly n limbs: zero limbs added on top, or the top limbs cut off
resize_limbs(x, n) ==
    IF Len(x) >= n THEN SubSeq(x, 1, n) ELSE x \o zero_limbs(n - Len(x))

\* x * m for one limb m, on one limb more than x, taken byte by byte of m
mul_limb(x, m) ==
    LET lo == resize_limbs(mul_limbs(x, m % 256, 1, 0, <<>>), Len(x) + 1)
        hi == resize_limbs(mul_limbs(mul_limbs(x, m \div 256, 1, 0, <<>>), 256, 1, 0, <<>>),
                           Len(x) + 1)
    IN add_limbs(lo, hi, 1, 0, <<>>).limbs

\* a * b on Len(a) + Len(b) limbs: the limbs of b from limb j on, added to acc
RECURSIVE mul_wide(_, _, _, _)
mul_wide(a, b, j, acc) ==
    IF j > Len(b) THEN acc
    ELSE LET term == resize_limbs(zero_limbs(j - 1) \o mul_limb(a, b[j]), Len(acc))
         IN mul_wide(a, b, j + 1, add_limbs(acc, term, 1, 0, <<>>).limbs)

\* the number of bits of x, from limb i down
RECURSIVE limbs_bitlen(_, _)
limbs_bitlen(x, i) ==
    IF i = 0 THEN 0
    ELSE IF x[i] # 0 THEN LimbBits * (i - 1) + BitLen(x[i])
    ELSE limbs_bitlen(x, i - 1)

\* x with its d low bits dropped, on as many limbs as x
shr_limbs(x, d) ==
    LET whole == d \div LimbBits
        top == SubSeq(x, whole + 1, Len(x))
    IN IF whole >= Len(x) THEN zero_limbs(Len(x))
       ELSE resize_limbs(div_limbs(top, 2^(d % LimbBits), Len(top), 0, <<>>), Len(x))

\* x with d zero bits put below it, on as many limbs as x
shl_limbs(x, d) ==
    resize_limbs(zero_limbs(d \div LimbBits) \o mul_limbs(x, 2^(d % LimbBits), 1, 0, <<>>),
                 Len(x))

\* bit i of x, and whether the bits of x below bit d are all zero
bit_of(x, i) ==
    IF i \div LimbBits + 1 > Len(x) THEN 0
    ELSE (x[i \div LimbBits + 1] \div 2^(i % LimbBits)) % 2
low_bits_zero(x, d) ==
    \A i \in 1..Len(x) :
        /\ (i <= d \div LimbBits) => x[i] = 0
        /\ (i = d \div LimbBits + 1) => x[i] % 2^(d % LimbBits) = 0

\* a - b for a >= b, on as many limbs as a, and the quotient bits of a
\* long division: n times, the next bit of rem / d, the rest doubled
\* (the comparison makes TLC compute the numbers of a step before it goes
\* on to the next)
sub_limbs(a, b) ==
    add_limbs(a, [i \in 1..Len(a) |-> LimbBase - 1 - b[i]], 1, 1, <<>>).limbs
RECURSIVE div_loop(_, _, _, _)
div_loop(rem, d, n, q) ==
    IF n = 0 THEN [q |-> q, rem |-> rem]
    ELSE LET ge == limbs_le(d, rem)
             rest == IF ge THEN sub_limbs(rem, d) ELSE rem
             rem_next == add_limbs(rest, rest, 1, 0, <<>>).limbs
             q_next == add_limbs(q, q, 1, IF ge THEN 1 ELSE 0, <<>>).limbs
         IN IF <<rem_next, q_next>> = <<rem_next, q_next>>
            THEN div_loop(rem_next, d, n - 1, q_next)
            ELSE [q |-> q, rem |-> rem]

\* an f64: a number (-1)^neg * m * 2^e with m below 2^53 and e at least
\* -1074 (normal, subnormal or zero), an infinity, or NaN
F64MantissaBits == 53
F64(m, e) == [kind |-> "num", neg |-> FALSE, m |-> resize_limbs(m, U64LimbCount), e |-> e]
F64Zero == F64(<<0>>, 0)
F64One == F64(<<1>>, 0)

\* the f64 nearest to x * 2^e (ties to even); `inexact` says that the
\* number rounded lies above x * 2^e, by less than 2^e.  The f64 keeps 53
\* bits, fewer below 2^-1022 where its lowest bit stays at 2^-1074, and is
\* infinite from 2^1024 on.
f64_round(x, e, inexact) ==
    LET bits == limbs_bitlen(x, Len(x))
        drop == IF bits - F64MantissaBits >= (0 - 1074) - e
                THEN bits - F64MantissaBits ELSE (0 - 1074) - e
        kept == shr_limbs(x, drop)
        up == /\ bit_of(x, drop - 1) = 1
              /\ \/ inexact
                 \/ ~low_bits_zero(x, drop - 1)
                 \/ bit_of(x, drop) = 1
        sum == IF up THEN add_limbs(kept, resize_limbs(<<1>>, Len(kept)), 1, 0, <<>>).limbs
               ELSE kept
        rounded == IF drop <= 0 THEN F64(x, e)
                   ELSE IF limbs_bitlen(sum, Len(sum)) > F64MantissaBits
                   THEN F64(shr_limbs(sum, 1), e + drop + 1)
                   ELSE F64(sum, e + drop)
    IN IF rounded.m = F64Zero.m THEN F64Zero
       ELSE IF limbs_bitlen(rounded.m, U64LimbCount) + rounded.e > 1024
       THEN [F64Zero EXCEPT !.kind = "inf"]
       ELSE rounded

\* `base_delay_ms as f64`: exact below 2^53, rounded above
as_f64(x) == f64_round(x, 0, FALSE)

\* the f64 of a multiplier written in tenths (1.2 is 0x13333333333333 * 2^-52)
f64_of_tenths(multiplier) ==
    IF multiplier = 0 THEN F64Zero
    ELSE LET tenths == IF multiplier < 0 THEN 0 - multiplier ELSE multiplier
             scaled == zero_limbs(U64LimbCount) \o <<tenths>>
             q == div_limbs(scaled, 10, Len(scaled), 0, <<>>)
         IN [f64_round(q, 0 - LimbBits * U64LimbCount,
                       resize_limbs(mul_limbs(q, 10, 1, 0, <<>>), Len(scaled)) # scaled)
               EXCEPT !.neg = multiplier < 0]

\* the f64 product, rounded
f64_mul(x, y) ==
    LET neg == x.neg # y.neg IN
    IF x.kind = "nan" \/ y.kind = "nan" THEN [F64Zero EXCEPT !.kind = "nan"]
    ELSE IF x.kind = "inf" \/ y.kind = "inf"
    THEN (IF (x.kind = "num" /\ x.m = F64Zero.m) \/ (y.kind = "num" /\ y.m = F64Zero.m)
          THEN [F64Zero EXCEPT !.kind = "nan"]
          ELSE [F64Zero EXCEPT !.kind = "inf", !.neg = neg])
    ELSE IF x.m = F64Zero.m \/ y.m = F64Zero.m THEN [F64Zero EXCEPT !.neg = neg]
    ELSE [f64_round(mul_wide(x.m, y.m, 1, zero_limbs(2 * U64LimbCount)), x.e + y.e, FALSE)
             EXCEPT !.neg = neg]

\* 1.0 / x, rounded: 65 quotient bits of 2^(bits + 63) / m
f64_recip(x) ==
    IF x.kind = "nan" THEN x
    ELSE IF x.kind = "inf" THEN [F64Zero EXCEPT !.neg = x.neg]
    ELSE IF x.m = F64Zero.m THEN [F64Zero EXCEPT !.kind = "inf", !.neg = x.neg]
    ELSE LET bits == limbs_bitlen(x.m, U64LimbCount)
             d == div_loop(shl_limbs(F64One.m, bits - 1), x.m, 65,
                           zero_limbs(U64LimbCount + 1))
         IN [f64_round(d.q, 0 - (bits + 63) - x.e, d.rem # F64Zero.m) EXCEPT !.neg = x.neg]

\* f64::powi(n) for an i32 n, by squaring over the bits of |n|: r takes the
\* factor a when the low bit is set, then a is squared for the next bit;
\* x.powi(0) is 1.0, and a negative n gives the reciprocal of the power
\* (the comparison makes TLC compute the two numbers of a step before it
\* goes on to the next)
RECURSIVE powi_loop(_, _, _)
powi_loop(a, n, r) ==
    LET r_next == IF n % 2 = 1 THEN f64_mul(r, a) ELSE r
        n_next == IF n < 0 THEN (n + (n % 2)) \div 2 ELSE n \div 2
        a_next == f64_mul(a, a)
    IN IF n_next = 0 THEN r_next
       ELSE IF <<a_next, r_next>> = <<a_next, r_next>>
       THEN powi_loop(a_next, n_next, r_next)
       ELSE r_next
powi(multiplier, n) ==
    IF n < 0 THEN f64_recip(powi_loop(multiplier, n, F64One))
    ELSE powi_loop(multiplier, n, F64One)

\* the `as u64` cast of an f64: truncation toward zero, saturating at 0
\* (negative numbers) and at u64::MAX, NaN giving 0
f64_as_u64(x) ==
    IF x.kind = "nan" \/ x.neg \/ (x.kind = "num" /\ x.m = F64Zero.m) THEN F64Zero.m
    ELSE IF x.kind = "inf" THEN U64Max
    ELSE IF x.e >= 0
    THEN (IF limbs_bitlen(x.m, Len(x.m)) + x.e > LimbBits * U64LimbCount THEN U64Max
          ELSE shl_limbs(x.m, x.e))
    ELSE shr_limbs(x.m, 0 - x.e)

\* `attempt as i32 - 1` for the u32 attempt (two limbs, as U32 below): the
\* cast reads the 32 bits as two's complement, and the subtraction
\* overflows for attempt = 2^31 (i32::MIN): a build with overflow checks
\* panics there, one without wraps to i32::MAX
backoff_exponent(attempt, overflow_checks) ==
    LET half == LimbBase \div 2 IN
    IF attempt.hi = half /\ attempt.lo = 0
    THEN (IF overflow_checks THEN [panic |-> TRUE, n |-> 0]
          ELSE [panic |-> FALSE, n |-> 2147483647])
    ELSE [panic |-> FALSE,
          n |-> (IF attempt.hi >= half THEN (attempt.hi - LimbBase) * LimbBase
                 ELSE attempt.hi * LimbBase) + attempt.lo - 1]

\* (base_delay_ms as f64 * multiplier.powi(attempt as i32 - 1)) as u64
exponential_delay(base_delay_ms, n, multiplier) ==
    f64_as_u64(f64_mul(as_f64(base_delay_ms), powi(f64_of_tenths(multiplier), n)))

\* u64::saturating_add
saturating_add(a, b) ==
    LET sum == add_limbs(a, b, 1, 0, <<>>) IN
    IF sum.carry # 0 THEN U64Max ELSE sum.limbs

\* u64::wrapping_add
wrapping_add(a, b) == add_limbs(a, b, 1, 0, <<>>).limbs

\* rand::thread_rng().gen_range(0..=jitter_ms): the values it can return,
\* for a jitter_ms below 2^16
gen_range(jitter_ms) == { u64(n) : n \in 0..jitter_ms[1] }

\* the jitter added with a wrapping addition
calculate_backoff_wrapping(base_delay_ms, attempt, multiplier, max_delay_ms, jitter_ms, overflow_checks) ==
    LET exponent == backoff_exponent(attempt, overflow_checks)
        capped_delay == u64_min(exponential_delay(base_delay_ms, exponent.n, multiplier),
                                max_delay_ms)
    IN IF exponent.panic THEN {[tag |-> "panic", message |-> "attempt to subtract with overflow"]}
       ELSE IF jitter_ms # u64(0)
       THEN { [tag |-> "Ok", delay |-> wrapping_add(capped_delay, jitter)] : jitter \in gen_range(jitter_ms) }
       ELSE {[tag |-> "Ok", delay |-> capped_delay]}

\* what the call can return, in a build with or without overflow checks:
\* one delay for each value gen_range can draw
calculate_backoff_with_jitter(base_delay_ms, attempt, multiplier, max_delay_ms, jitter_ms, overflow_checks) ==
    LET exponent == backoff_exponent(attempt, overflow_checks)
        capped_delay == u64_min(exponential_delay(base_delay_ms, exponent.n, multiplier),
                                max_delay_ms)
    IN IF exponent.panic THEN {[tag |-> "panic", message |-> "attempt to subtract with overflow"]}
       ELSE IF jitter_ms # u64(0)
       THEN { [tag |-> "Ok", delay |-> saturating_add(capped_delay, jitter)] : jitter \in gen_range(jitter_ms) }
       ELSE {[tag |-> "Ok", delay |-> capped_delay]}

----------------------------------------------------------------------------
(* btc-light-client/core/src/light_client.rs.  What bitcoin_core_rs says   *)
(* about a header is part of the header: its hash and previous-block hash, *)
(* whether it meets its proof-of-work target, its block proof (or that the *)
(* proof cannot be computed), and, for each retarget anchor, the anchor    *)
(* validate_next_work_required returns for it or that its bits are wrong.  *)

HeaderHashes == {"h0", "h1"}
Anchors == {"r0", "r1"}
\* Result<[u8; 32]>: Some(work) for Ok, None for Err
BlockProofs == { Some(w) : w \in 1..MaxProof } \cup {None}

Header ==
    [hash : HeaderHashes, prev : HeaderHashes, pow : BOOLEAN,
     next_work : [Anchors -> Anchors \cup {"Err"}], proof : BlockProofs]

\* bitcoin_core_rs::check_header_connection(current, previous)
check_header_connection(current_header, previous_header) ==
    current_header.prev = previous_header.hash

\* bitcoin_core_rs::validate_next_work_required(retarget, previous_height,
\* previous, current): Ok(the anchor to use from here on) or Err
validate_next_work_required(retarget_header, previous_height, previous_header, current_header) ==
    current_header.next_work[retarget_header]

\* bitcoin_core_rs::check_proof_of_work(current)
check_proof_of_work(current_header) == current_header.pow

\* bitcoin_core_rs::get_block_proof(header)
get_block_proof(header) == header.proof

Panic(message) == [tag |-> "panic", message |-> message]

MsgEmpty == "Header chain must not be empty"
MsgNotConnected == "Header chain link is not connected"
MsgWork == "Failed to validate work requirement"
MsgPoW == "Header fails PoW check"
MsgProof == "Header proof calculation failed"
MsgOverflow == "Chainwork addition overflow"
MsgAddOverflow == "attempt to add with overflow"

\* u32 (parent_height, line 9): two 16-bit limbs, value = hi * LimbBase + lo
U32(hi, lo) == [hi |-> hi, lo |-> lo]
U32MAX == U32(LimbBase - 1, LimbBase - 1)

\* line 25, `parent_height + i as u32`: whether the sum passes u32::MAX,
\* and the sum modulo 2^32
u32_add_overflows(a, n) == a.hi + ((a.lo + n) \div LimbBase) >= LimbBase
u32_wrapping_add(a, n) ==
    U32((a.hi + ((a.lo + n) \div LimbBase)) % LimbBase, (a.lo + n) % LimbBase)

\* lines 18-55: the loop over windows(2) of parent_header followed by the
\* chain, from pair i on, with the current retarget_header
RECURSIVE validate_pairs(_, _, _, _, _)
validate_pairs(parent_height, headers, i, retarget_header, overflow_checks) ==
    IF i + 2 > Len(headers) THEN [tag |-> "Ok"]
    ELSE LET previous_header == headers[i + 1]
             previous_height == u32_wrapping_add(parent_height, i)
             current_header == headers[i + 2]
             next_retarget == validate_next_work_required(
                                  retarget_header, previous_height,
                                  previous_header, current_header)
         IN
         \* past u32::MAX a build with overflow checks panics and a build
         \* without them wraps (no build profile is part of the sources)
         IF overflow_checks /\ u32_add_overflows(parent_height, i)
         THEN Panic(MsgAddOverflow)
         ELSE IF ~check_header_connection(current_header, previous_header)
         THEN Panic(MsgNotConnected)
         ELSE IF next_retarget = "Err" THEN Panic(MsgWork)
         ELSE IF ~check_proof_of_work(current_header) THEN Panic(MsgPoW)
         ELSE validate_pairs(parent_height, headers, i + 1, next_retarget,
                             overflow_checks)

\* lines 8-56; overflow_checks is the build's setting, not an argument
validate_header_chain(parent_height, parent_header, parent_retarget_header, header_chain, overflow_checks) ==
    IF header_chain = <<>> THEN Panic(MsgEmpty)
    ELSE validate_pairs(parent_height, <<parent_header>> \o header_chain, 0,
                        parent_retarget_header, overflow_checks)

\* U256 (crypto_bigint): U256LimbCount limbs of 16 bits, least significant
\* first
U256LimbCount == 16
U256Max == [i \in 1..U256LimbCount |-> LimbBase - 1]

\* U256::from_le_bytes of the 32 bytes get_block_proof returns; the bytes
\* are held as the number they spell, which is below 2^16 in the model
from_le_bytes(bytes) == [i \in 1..U256LimbCount |-> IF i = 1 THEN bytes ELSE 0]

\* an addition that wraps
checked_add_wrapping(a, b) == Some(add_limbs(a, b, 1, 0, <<>>).limbs)

\* U256::checked_add: None when the sum does not fit
checked_add(a, b) ==
    LET sum == add_limbs(a, b, 1, 0, <<>>) IN
    IF sum.carry # 0 THEN None ELSE Some(sum.limbs)

\* lines 62-72: the scan from header i on with accumulator acc; works is
\* what has been collected so far
RECURSIVE scan_works(_, _, _, _)
scan_works(header_chain, i, acc, works) ==
    IF i > Len(header_chain) THEN [tag |-> "Ok", works |-> works]
    ELSE LET header_proof == get_block_proof(header_chain[i]) IN
         IF ~header_proof.some THEN Panic(MsgProof)
         ELSE LET sum == checked_add(from_le_bytes(header_proof.v), acc) IN
              IF ~sum.some THEN Panic(MsgOverflow)
              ELSE scan_works(header_chain, i + 1, sum.v, Append(works, sum.v))

\* the result without the parent work pushed in front
calculate_cumulative_work_no_parent(parent_cumulative_work, header_chain) ==
    LET scanned == scan_works(header_chain, 1, parent_cumulative_work, <<>>) IN
    IF scanned.tag # "Ok" THEN scanned
    ELSE LET works == scanned.works
             final_work == IF works = <<>> THEN parent_cumulative_work
                           ELSE works[Len(works)]
         IN [tag |-> "Ok", all_works |-> works, final_work |-> final_work]

calculate_cumulative_work(parent_cumulative_work, header_chain) ==
    LET scanned == scan_works(header_chain, 1, parent_cumulative_work, <<>>) IN
    IF scanned.tag # "Ok" THEN scanned
    ELSE LET works == scanned.works
             final_work == IF works = <<>> THEN parent_cumulative_work
                           ELSE works[Len(works)]
             all_works == <<parent_cumulative_work>> \o works
         IN [tag |-> "Ok", all_works |-> all_works, final_work |-> final_work]

----------------------------------------------------------------------------
(* Actions of process_fork.  Each is one collaborator call (an await) with *)
(* the straight-line code around it.                                       *)

InProcess(at) == main_pc = "process" /\ pf_pc = at

\* return from process_fork: the result is handed to the supervisor
Return(result) ==
    /\ pf_pc' = "returned"
    /\ pf_result' = result
    /\ active' = active - 1

BuilderResults == Roots \cup {"Err"}

\* the two read guards taken before a build, in the order of lines 356-357
\* and 380-381
ReadGuards == <<"bitcoin_mmr", "light_client_mmr">>

\* lines 356 and 380: bitcoin_data_engine.indexed_mmr.read().await
PfLockBitcoinMmr ==
    /\ main_pc = "process"
    /\ pf_pc \in {"entry", "rebuild"}
    /\ guards' = guards \cup {ReadGuards[1]}
    /\ pf_pc' = IF pf_pc = "entry" THEN "entry_bde" ELSE "rebuild_bde"
    /\ UNCHANGED <<config, currently_processing, main_pc, is_processing, fork_type,
                   ctx, poll_i, pf_result, tx_result, last_call, calls, steps, reverts,
                   active, expected_mmr_root, current_root, fn_vars>>

\* lines 357 and 381: contract_data_engine.checkpointed_block_tree.read().await
PfLockLightClientMmr ==
    /\ main_pc = "process"
    /\ pf_pc \in {"entry_bde", "rebuild_bde"}
    /\ guards' = guards \cup {ReadGuards[2]}
    /\ pf_pc' = IF pf_pc = "entry_bde" THEN "entry_locked" ELSE "rebuild_locked"
    /\ UNCHANGED <<config, currently_processing, main_pc, is_processing, fork_type,
                   ctx, poll_i, pf_result, tx_result, last_call, calls, steps, reverts,
                   active, expected_mmr_root, current_root, fn_vars>>

\* guards that live to the end of the function instead of the block
guards_kept_after_build(held) == held

\* lines 366 and 390: the block that declared the guards ends, on the value
\* and on the `?` alike, and both are dropped
guards_after_build(held) == {}

\* lines 358-368: the chain transition built once up front, under the guards
PfBuildInitial ==
    /\ InProcess("entry_locked")
    /\ guards' = guards_after_build(guards)
    /\ \E r \in BuilderResults :
         /\ calls' = [calls EXCEPT !.build = @ + 1]
         /\ steps' = <<"build">>
         /\ IF r = "Err"
            THEN /\ Return("Err:build_chain_transition")
                 /\ UNCHANGED ctx
            ELSE /\ ctx' = [ctx EXCEPT !.chain_transition =
                                          Some(ChainTransition(r, calls.build + 1))]
                 /\ pf_pc' = "loop"
                 /\ UNCHANGED <<pf_result, active>>
    /\ UNCHANGED <<config, currently_processing, main_pc, is_processing, fork_type,
                   poll_i, reverts, tx_result, last_call,
                   expected_mmr_root, current_root, fn_vars>>

\* lines 370-374 and 581-582: the loop condition, the attempt counter and
\* the choice between reusing the proof and making one
PfLoopHead ==
    /\ InProcess("loop")
    /\ IF attempts_left(ctx, config)
       THEN /\ ctx' = [ctx EXCEPT !.attempt = @ + 1]
            /\ steps' = <<>>
            /\ pf_pc' = IF needs_proof(ctx)
                        THEN (IF ctx.proof_regenerations > 0 THEN "rebuild" ELSE "prove")
                        ELSE "broadcast"
            /\ UNCHANGED <<pf_result, active>>
       ELSE /\ Return("Err:max_attempts")
            /\ UNCHANGED <<ctx, steps>>
    /\ UNCHANGED <<config, currently_processing, main_pc, is_processing, fork_type,
                   poll_i, calls, reverts, tx_result, last_call,
                   expected_mmr_root, current_root, guards, fn_vars>>

\* lines 375-393: the chain transition rebuilt before a regeneration
PfRebuild ==
    /\ InProcess("rebuild_locked")
    /\ guards' = guards_after_build(guards)
    /\ \E r \in BuilderResults :
         /\ calls' = [calls EXCEPT !.build = @ + 1]
         /\ steps' = Append(steps, "build")
         /\ IF r = "Err"
            THEN /\ Return("Err:build_chain_transition")
                 /\ UNCHANGED ctx
            ELSE /\ ctx' = [ctx EXCEPT !.chain_transition =
                                          Some(ChainTransition(r, calls.build + 1))]
                 /\ pf_pc' = "prove"
                 /\ UNCHANGED <<pf_result, active>>
    /\ UNCHANGED <<config, currently_processing, main_pc, is_processing, fork_type,
                   poll_i, reverts, tx_result, last_call,
                   expected_mmr_root, current_root, fn_vars>>

ProverResults == {"input_err", "prove_err", "proof", "no_proof"}

\* the proof step with the parameters stored next to the public values,
\* before the prover is called
PfProveStoresParamsFirst ==
    /\ InProcess("prove")
    /\ IF proof_budget_exhausted(ctx, config)
       THEN /\ Return("Err:proof_budget")
            /\ UNCHANGED <<ctx, calls, steps>>
       ELSE \E p \in ProverResults :
              LET chain_transition == ctx.chain_transition.v
                  public_values == LightClientPublicInput(chain_transition)
                  regen == ctx.proof_regenerations + 1
              IN
              CASE p = "input_err" ->
                     /\ ctx' = [ctx EXCEPT !.proof_regenerations = regen]
                     /\ Return("Err:program_input")
                     /\ UNCHANGED <<calls, steps>>
                [] p = "prove_err" ->
                     /\ ctx' = [ctx EXCEPT !.proof_regenerations = regen,
                                           !.public_values = Some(public_values),
                                           !.block_proof_params =
                                               Some(BlockProofParams(public_values))]
                     /\ calls' = [calls EXCEPT !.prove = @ + 1]
                     /\ steps' = Append(steps, "prove")
                     /\ Return("Err:prove")
                [] OTHER ->
                     /\ ctx' = [ctx EXCEPT !.proof_regenerations = regen,
                                           !.public_values = Some(public_values),
                                           !.block_proof_params =
                                               Some(BlockProofParams(public_values)),
                                           !.proof_bytes =
                                               proof_bytes_of(p, chain_transition)]
                     /\ calls' = [calls EXCEPT !.prove = @ + 1]
                     /\ steps' = Append(steps, "prove")
                     /\ pf_pc' = "broadcast"
                     /\ UNCHANGED <<pf_result, active>>
    /\ UNCHANGED <<config, currently_processing, main_pc, is_processing, fork_type,
                   poll_i, reverts, tx_result, last_call,
                   expected_mmr_root, current_root, guards, fn_vars>>

\* lines 395-436: the budget test, the program input, the prover call and
\* the packaging of its result
PfProve ==
    /\ InProcess("prove")
    /\ IF proof_budget_exhausted(ctx, config)
       THEN /\ Return("Err:proof_budget")
            /\ UNCHANGED <<ctx, calls, steps>>
       ELSE \E p \in ProverResults :
              LET chain_transition == ctx.chain_transition.v
                  public_values == LightClientPublicInput(chain_transition)
                  regen == ctx.proof_regenerations + 1
              IN
              CASE p = "input_err" ->
                     /\ ctx' = [ctx EXCEPT !.proof_regenerations = regen]
                     /\ Return("Err:program_input")
                     /\ UNCHANGED <<calls, steps>>
                [] p = "prove_err" ->
                     /\ ctx' = [ctx EXCEPT !.proof_regenerations = regen,
                                           !.public_values = Some(public_values)]
                     /\ calls' = [calls EXCEPT !.prove = @ + 1]
                     /\ steps' = Append(steps, "prove")
                     /\ Return("Err:prove")
                [] OTHER ->
                     /\ ctx' = [ctx EXCEPT !.proof_regenerations = regen,
                                           !.public_values = Some(public_values),
                                           !.block_proof_params =
                                               Some(BlockProofParams(public_values)),
                                           !.proof_bytes =
                                               proof_bytes_of(p, chain_transition)]
                     /\ calls' = [calls EXCEPT !.prove = @ + 1]
                     /\ steps' = Append(steps, "prove")
                     /\ pf_pc' = "broadcast"
                     /\ UNCHANGED <<pf_result, active>>
    /\ UNCHANGED <<config, currently_processing, main_pc, is_processing, fork_type,
                   poll_i, reverts, tx_result, last_call,
                   expected_mmr_root, current_root, guards, fn_vars>>

\* what broadcast_transaction can give: an error of the call itself, or one
\* of the four TransactionExecutionResult variants
BroadcastResults ==
    {[tag |-> "Err"], [tag |-> "Success"], [tag |-> "InvalidRequest"],
     [tag |-> "UnknownError"]}
    \cup { [tag |-> "Revert", revert_info |-> ri] : ri \in MainReverts }

\* lines 439-578: the call is built from ctx.block_proof_params and
\* ctx.proof_bytes, broadcast, and the result handled up to the sleep
PfBroadcast ==
    /\ InProcess("broadcast")
    /\ ctx.block_proof_params.some
    /\ \E r \in BroadcastResults :
         /\ last_call' = Some([block_proof_params |-> ctx.block_proof_params.v,
                                proof_bytes |-> ctx.proof_bytes])
         /\ tx_result' = [tag |-> r.tag,
                          error_type |-> IF r.tag = "Revert"
                                         THEN classify_revert_error(r.revert_info).kind
                                         ELSE "None"]
         /\ calls' = [calls EXCEPT !.broadcast = @ + 1,
                                   !.sleep = IF \/ r.tag = "UnknownError"
                                                \/ /\ r.tag = "Revert"
                                                   /\ ~revert_handling(
                                                         classify_revert_error(r.revert_info).kind,
                                                         ctx, config).terminal
                                             THEN @ + 1 ELSE @]
         /\ CASE r.tag = "Err" ->
                   /\ Return("Err:broadcast")
                   /\ steps' = Append(steps, "broadcast")
                   /\ UNCHANGED <<ctx, poll_i, reverts, expected_mmr_root, current_root>>
              [] r.tag = "Success" ->
                   /\ pf_pc' = "catchup"
                   /\ poll_i' = 1
                   /\ expected_mmr_root' = ctx.public_values.v.newMmrRoot
                   /\ current_root' = "none"
                   /\ steps' = Append(steps, "broadcast")
                   /\ UNCHANGED <<ctx, pf_result, active, reverts>>
              [] r.tag = "InvalidRequest" ->
                   /\ Return("Err:invalid_request")
                   /\ steps' = Append(steps, "broadcast")
                   /\ UNCHANGED <<ctx, poll_i, reverts, expected_mmr_root, current_root>>
              [] r.tag = "UnknownError" ->
                   /\ ctx' = [ctx EXCEPT !.last_error = Some(UnknownErrorText),
                                         !.last_error_type = Some("NetworkError")]
                   /\ steps' = Append(Append(steps, "broadcast"), "sleep")
                   /\ pf_pc' = "loop"
                   /\ UNCHANGED <<pf_result, active, poll_i, reverts,
                                  expected_mmr_root, current_root>>
              [] OTHER ->
                   LET error_type == classify_revert_error(r.revert_info).kind
                       todo == revert_handling(error_type, ctx, config)
                   IN
                   /\ reverts' = [reverts EXCEPT ![error_type] = @ + 1]
                   /\ UNCHANGED <<poll_i, expected_mmr_root, current_root>>
                   /\ IF todo.terminal
                      THEN /\ ctx' = [ctx EXCEPT
                                        !.last_error = Some(r.revert_info.message),
                                        !.last_error_type = Some(error_type)]
                           /\ steps' = Append(steps, "broadcast")
                           /\ Return(todo.err)
                      ELSE /\ ctx' = [ctx EXCEPT
                                        !.last_error = Some(r.revert_info.message),
                                        !.last_error_type = Some(todo.last_error_type)]
                           /\ steps' = Append(Append(steps, "broadcast"), "sleep")
                           /\ pf_pc' = "loop"
                           /\ UNCHANGED <<pf_result, active>>
    /\ UNCHANGED <<config, currently_processing, main_pc, is_processing, fork_type,
                   guards, fn_vars>>

CdeRootResults == Roots \cup {"Err"}

\* a loop that gives up after its first round
last_round_is_first(i) == i = 1

\* `for i in 1..=15`: round i is the last one
last_round(i) == i = CatchupPolls

\* one round of the catch-up loop with a failed read propagated (`?`)
PfCatchupReadErrorReturns ==
    /\ InProcess("catchup")
    /\ \E root \in CdeRootResults :
         /\ current_root' = root
         /\ IF root = expected_mmr_root
            THEN /\ calls' = [calls EXCEPT !.cde_read = @ + 1]
                 /\ Return("Ok")
                 /\ UNCHANGED poll_i
            ELSE IF root = "Err"
            THEN /\ calls' = [calls EXCEPT !.cde_read = @ + 1]
                 /\ Return("Err:broadcast")
                 /\ UNCHANGED poll_i
            ELSE /\ calls' = [calls EXCEPT !.cde_read = @ + 1, !.sleep = @ + 1]
                 /\ IF poll_i = CatchupPolls
                    THEN /\ Return("Ok")
                         /\ UNCHANGED poll_i
                    ELSE /\ poll_i' = poll_i + 1
                         /\ UNCHANGED <<pf_pc, pf_result, active>>
    /\ UNCHANGED <<config, currently_processing, main_pc, is_processing, fork_type,
                   ctx, steps, reverts, tx_result, last_call, expected_mmr_root,
                   guards, fn_vars>>

\* lines 458-481: one round of the catch-up loop; the root read equals the
\* expected root (break), or the round sleeps and the loop goes on or ends
PfCatchup ==
    /\ InProcess("catchup")
    /\ \E root \in CdeRootResults :
         /\ current_root' = root
         /\ IF root = expected_mmr_root
            THEN /\ calls' = [calls EXCEPT !.cde_read = @ + 1]
                 /\ Return("Ok")
                 /\ UNCHANGED poll_i
            ELSE /\ calls' = [calls EXCEPT !.cde_read = @ + 1, !.sleep = @ + 1]
                 /\ IF last_round(poll_i)
                    THEN /\ Return("Ok")
                         /\ UNCHANGED poll_i
                    ELSE /\ poll_i' = poll_i + 1
                         /\ UNCHANGED <<pf_pc, pf_result, active>>
    /\ UNCHANGED <<config, currently_processing, main_pc, is_processing, fork_type,
                   ctx, steps, reverts, tx_result, last_call, expected_mmr_root,
                   guards, fn_vars>>

----------------------------------------------------------------------------
(* Actions of the main loop task.                                          *)

\* lines 145-158, the select!.  The root-watch task (lines 111-131) reaches
\* the main loop only through the rx.changed() arm, and the value received
\* is only logged; the timer arm alone makes the wake always possible.
MainWakeBody ==
    /\ main_pc = "select"
    /\ main_pc' = "read_flag"
    /\ UNCHANGED <<config, currently_processing, is_processing, fork_type, pf_pc, ctx,
                   poll_i, pf_result, calls, steps, reverts, active,
                   tx_result, last_call,
                   expected_mmr_root, current_root, guards, fn_vars>>

\* lines 146-154: rx.changed() completed (a new root, or the channel closed)
MainWakeChanged == MainWakeBody

\* lines 155-157: sleep(config.poll_interval) elapsed
MainWakeTick == MainWakeBody

MainWake == MainWakeChanged \/ MainWakeTick

Leaf(h, ht, w) == [block_hash |-> h, height |-> ht, chainwork |-> w]

\* the (LC, BDE) states the main loop meets in Spec
MainChainStates ==
    { [lc |-> <<Leaf("a", 0, 0), Leaf("a", 1, 0)>>,
       bde |-> <<Leaf("a", 0, 0), Leaf("a", 1, 0)>>],
      [lc |-> <<Leaf("a", 0, 0), Leaf("a", 1, 0)>>,
       bde |-> <<Leaf("a", 0, 0), Leaf("a", 1, 0), Leaf("a", 2, 1)>>],
      [lc |-> <<Leaf("a", 0, 0), Leaf("b", 1, 0)>>,
       bde |-> <<Leaf("a", 0, 0), Leaf("a", 1, 0), Leaf("a", 2, 1)>>],
      [lc |-> <<Leaf("a", 0, 0), Leaf("b", 1, 1)>>,
       bde |-> <<Leaf("a", 0, 0), Leaf("a", 1, 0)>>] }

----------------------------------------------------------------------------
(* detect_fork read by read, lines 221-291, with the indexers writing in   *)
(* between.  Each read takes its engine's read guard for itself and is     *)
(* awaited, so a writer can get in between any two of them.  fn_in is the  *)
(* environment of the call and fn_out the call.                            *)

\* the MMRs of the two engines when detect_fork runs on its own: the empty
\* one and every chain that starts at the one genesis leaf
DetectChains == { c \in Chains : Len(c) >= 1 => c[1] = Leaf("a", 0, 0) }

\* the chains each indexer moves between: under the main loop those of
\* MainChainStates (the light client can come to hold what the BDE holds),
\* DetectChains when detect_fork runs on its own
LcChains ==
    IF main_pc = "off" THEN DetectChains
    ELSE { s.lc : s \in MainChainStates } \cup { s.bde : s \in MainChainStates }
BdeChains == IF main_pc = "off" THEN DetectChains ELSE { s.bde : s \in MainChainStates }

\* what one write of an indexer makes of a chain.  The MMRs are append-only
\* and cumulative work does not decrease by index: a write appends one
\* leaf, and the longer chain is a chain again.
WritesOf(c, chains) ==
    { d \in chains : Len(d) = Len(c) + 1 /\ SubSeq(d, 1, Len(c)) = c }

\* the tip taken to be at the leaf count
tip_index_is_count(leaf_count) == leaf_count

\* lines 226 and 253: (leaf_count - 1) as u32, the low 32 bits of the
\* usize, as its two low limbs
tip_index(leaf_count) ==
    LET last == leaf_count - 1
    IN ((last \div LimbBase) % LimbBase) * LimbBase + (last % LimbBase)

DetectLocals == [lc_tip_height |-> 0, lc_tip_leaf |-> None,
                 bde_tip_height |-> 0, bde_tip_leaf |-> None]

\* a call of detect_fork: where it is, its locals, the read that failed and
\* its result; the environment of a call: the two MMRs, the writes made,
\* whether one fell between its reads, the states there have been, the
\* state at the first read and, write by write, who wrote before which read
\* and what the MMRs held after it
Pending == [tag |-> "pending"]
DetectReads == {"lc_count", "lc_leaf", "bde_count", "bde_leaf", "bde_lookup"}
\* the positions between two reads of a call
BetweenReads == DetectReads \ {"lc_count"}
DetectCallAt(pc) == [pc |-> pc, locals |-> DetectLocals, fail |-> "none",
                     result |-> Pending]
DetectEnv(lc, bde) == [lc |-> lc, bde |-> bde, writes |-> 0, dirty |-> FALSE,
                       instants |-> {[lc |-> lc, bde |-> bde]},
                       first |-> [lc |-> lc, bde |-> bde], log |-> <<>>]
NoDetectEnv == [lc |-> <<>>, bde |-> <<>>, writes |-> 0, dirty |-> FALSE,
                instants |-> {}, first |-> [lc |-> <<>>, bde |-> <<>>],
                log |-> <<>>]

StepDone(call, failed, result) ==
    [call EXCEPT !.pc = "done", !.fail = failed, !.result = result]

\* the CDE indexer writes the light-client MMR
IndexerWritesLc ==
    /\ fn_out.pc \in BetweenReads
    /\ fn_in.writes < MaxWrites
    /\ \E d \in WritesOf(fn_in.lc, LcChains) :
         fn_in' = [fn_in EXCEPT !.lc = d,
                                !.writes = @ + 1,
                                !.dirty = TRUE,
                                !.instants = @ \cup {[lc |-> d, bde |-> fn_in.bde]},
                                !.log = Append(@, [by |-> "lc", before |-> fn_out.pc,
                                                   lc |-> d, bde |-> fn_in.bde])]
    /\ UNCHANGED <<fn_out, main_vars>>

\* the BDE indexer writes the Bitcoin MMR
IndexerWritesBde ==
    /\ fn_out.pc \in BetweenReads
    /\ fn_in.writes < MaxWrites
    /\ \E d \in WritesOf(fn_in.bde, BdeChains) :
         fn_in' = [fn_in EXCEPT !.bde = d,
                                !.writes = @ + 1,
                                !.dirty = TRUE,
                                !.instants = @ \cup {[lc |-> fn_in.lc, bde |-> d]},
                                !.log = Append(@, [by |-> "bde", before |-> fn_out.pc,
                                                   lc |-> fn_in.lc, bde |-> d])]
    /\ UNCHANGED <<fn_out, main_vars>>

\* lines 221-231: the CDE leaf count and the two early exits
StepLcCount ==
    /\ fn_out.pc = "lc_count"
    /\ \E ok \in BOOLEAN :
         LET n == get_leaf_count(fn_in.lc) IN
         fn_out' = IF ~ok THEN StepDone(fn_out, "lc_count", DetectErr("lc_count"))
                   ELSE IF n = 0 THEN StepDone(fn_out, "none", NoFork)
                   ELSE IF tip_index(n) = 0 THEN StepDone(fn_out, "none", NoFork)
                   ELSE [fn_out EXCEPT !.pc = "lc_leaf",
                                       !.locals.lc_tip_height = tip_index(n)]
    \* what the iteration before left behind (its fork_type, the record of
    \* its catch-up) is out of scope once this one reads
    /\ fork_type' = NoFork
    /\ expected_mmr_root' = "none"
    /\ current_root' = "none"
    /\ poll_i' = 0
    /\ UNCHANGED <<fn_in, config, currently_processing, main_pc, is_processing,
                   pf_pc, ctx, pf_result, calls, steps, reverts, active,
                   tx_result, last_call, guards>>

\* lines 233-239: the LC tip leaf, read under the CDE tree's guard
StepLcLeaf ==
    /\ fn_out.pc = "lc_leaf"
    /\ \E ok \in BOOLEAN :
         LET leaf == get_leaf_by_leaf_index(fn_in.lc, fn_out.locals.lc_tip_height) IN
         fn_out' = IF ~ok \/ ~leaf.some
                   THEN StepDone(fn_out, IF ok THEN "none" ELSE "lc_leaf",
                                 DetectErr("lc_leaf"))
                   ELSE [fn_out EXCEPT !.pc = "bde_count",
                                       !.locals.lc_tip_leaf = Some(leaf.leaf)]
    /\ UNCHANGED <<fn_in, main_vars>>

\* lines 241-253: the BDE leaf count, read under the BDE MMR's guard
StepBdeCount ==
    /\ fn_out.pc = "bde_count"
    /\ \E ok \in BOOLEAN :
         LET n == get_leaf_count(fn_in.bde) IN
         fn_out' = IF ~ok THEN StepDone(fn_out, "bde_count", DetectErr("bde_count"))
                   ELSE IF n = 0 THEN StepDone(fn_out, "none", NoFork)
                   ELSE [fn_out EXCEPT !.pc = "bde_leaf",
                                       !.locals.bde_tip_height = tip_index(n)]
    /\ UNCHANGED <<fn_in, main_vars>>

\* lines 254-283: the BDE tip leaf, read under a guard of its own, and the
\* comparison of the two tips
StepBdeLeaf ==
    /\ fn_out.pc = "bde_leaf"
    /\ \E ok \in BOOLEAN :
         LET leaf == get_leaf_by_leaf_index(fn_in.bde, fn_out.locals.bde_tip_height) IN
         fn_out' = IF ~ok \/ ~leaf.some
                   THEN StepDone(fn_out, IF ok THEN "none" ELSE "bde_leaf",
                                 DetectErr("bde_leaf"))
                   ELSE IF compare_tips(fn_out.locals.lc_tip_leaf.v, leaf.leaf) # "bde_ahead"
                   THEN StepDone([fn_out EXCEPT !.locals.bde_tip_leaf = Some(leaf.leaf)],
                                 "none", NoFork)
                   ELSE [fn_out EXCEPT !.pc = "bde_lookup",
                                       !.locals.bde_tip_leaf = Some(leaf.leaf)]
    /\ UNCHANGED <<fn_in, main_vars>>

\* lines 286-314: the lookup of the LC tip in the BDE, under a third guard
\* on the BDE MMR, and the fork reported
StepBdeLookup ==
    /\ fn_out.pc = "bde_lookup"
    /\ \E ok \in BOOLEAN :
         LET l == fn_out.locals IN
         fn_out' = IF ~ok THEN StepDone(fn_out, "bde_lookup", DetectErr("bde_lookup"))
                   ELSE StepDone(fn_out, "none",
                                 fork_of_lookup(lookup_lc_tip(fn_in.bde, hash(l.lc_tip_leaf.v)),
                                                l.lc_tip_height, l.bde_tip_height,
                                                chainwork_as_u256(l.lc_tip_leaf.v),
                                                chainwork_as_u256(l.bde_tip_leaf.v)))
    /\ UNCHANGED <<fn_in, main_vars>>

----------------------------------------------------------------------------

\* lines 160-168: the flag is read under its lock; a set flag skips the check
MainReadFlag ==
    /\ main_pc = "read_flag"
    /\ is_processing' = currently_processing
    /\ main_pc' = IF currently_processing THEN "select" ELSE "detect"
    \* line 170: detect_fork is called on what the indexers hold by then
    /\ IF currently_processing THEN UNCHANGED fn_vars
       ELSE /\ \E s \in MainChainStates : fn_in' = DetectEnv(s.lc, s.bde)
            /\ fn_out' = DetectCallAt("lc_count")
    /\ UNCHANGED <<config, currently_processing, fork_type, pf_pc, ctx, poll_i,
                   pf_result, calls, steps, reverts, active, tx_result, last_call,
                   expected_mmr_root, current_root, guards>>

\* a processing started whatever detect_fork returned
main_after_detect_always_process(r) == "set_flag"

\* an error of detect_fork propagated out of the loop
main_after_detect_error_exits(r) ==
    IF IsFork(r) THEN "set_flag" ELSE IF r.tag = "Err" THEN "exited" ELSE "select"

\* lines 170-206, the match on detect_fork's result: a fork is processed,
\* None and Err are logged and the loop goes back to the select!
main_after_detect(r) == IF IsFork(r) THEN "set_flag" ELSE "select"

\* lines 170-177 and 202-205: detect_fork has returned, and its result is
\* matched
MainDetect ==
    /\ main_pc = "detect"
    /\ fn_out.pc = "done"
    /\ fork_type' = fn_out.result
    /\ main_pc' = main_after_detect(fn_out.result)
    /\ fn_in' = NoDetectEnv
    /\ fn_out' = DetectCallAt("idle")
    /\ UNCHANGED <<config, currently_processing, is_processing, pf_pc, ctx, poll_i,
                   pf_result, calls, steps, reverts, active, tx_result, last_call,
                   expected_mmr_root, current_root, guards>>

\* lines 174-191: the flag is set and process_fork is entered with a new context
MainSetFlag ==
    /\ main_pc = "set_flag"
    /\ currently_processing' = TRUE
    /\ main_pc' = "process"
    /\ pf_pc' = "entry"
    /\ ctx' = RetryContextNew
    /\ calls' = NoCalls
    /\ steps' = <<>>
    /\ tx_result' = NoTx
    /\ last_call' = None
    /\ reverts' = NoReverts
    /\ active' = active + 1
    /\ expected_mmr_root' = "none"
    /\ current_root' = "none"
    /\ poll_i' = 0
    /\ UNCHANGED <<config, is_processing, fork_type, pf_result,
                   guards, fn_vars>>

\* lines 192-200: the result is logged and the flag set to its value after
\* a processing
MainClearFlag ==
    /\ InProcess("returned")
    /\ currently_processing' = flag_after_processing(pf_result)
    /\ main_pc' = "select"
    /\ pf_pc' = "idle"
    /\ pf_result' = "none"
    /\ fork_type' = NoFork
    /\ ctx' = RetryContextNew
    /\ calls' = NoCalls
    /\ steps' = <<>>
    /\ tx_result' = NoTx
    /\ last_call' = None
    /\ reverts' = NoReverts
    /\ UNCHANGED <<config, is_processing, active, poll_i, expected_mmr_root, current_root,
                   guards, fn_vars>>

----------------------------------------------------------------------------
(* Spec: the supervisor with process_fork.                                 *)

\* the main loop at its first select!, after the channel was seeded (137-140)

Init ==
    /\ config \in Configs
    /\ currently_processing = FALSE
    /\ main_pc = "select"
    /\ is_processing = FALSE
    /\ fork_type = NoFork
    /\ pf_pc = "idle"
    /\ ctx = RetryContextNew
    /\ poll_i = 0
    /\ pf_result = "none"
    /\ tx_result = NoTx
    /\ last_call = None
    /\ calls = NoCalls
    /\ steps = <<>>
    /\ reverts = NoReverts
    /\ active = 0
    /\ guards = {}
    /\ expected_mmr_root = "none"
    /\ current_root = "none"
    /\ fn_in = NoDetectEnv
    /\ fn_out = DetectCallAt("idle")

Next ==
    \/ MainWakeChanged
    \/ MainWakeTick
    \/ MainReadFlag
    \/ IndexerWritesLc
    \/ IndexerWritesBde
    \/ StepLcCount
    \/ StepLcLeaf
    \/ StepBdeCount
    \/ StepBdeLeaf
    \/ StepBdeLookup
    \/ MainDetect
    \/ MainSetFlag
    \/ MainClearFlag
    \/ PfLockBitcoinMmr
    \/ PfLockLightClientMmr
    \/ PfBuildInitial
    \/ PfLoopHead
    \/ PfRebuild
    \/ PfProve
    \/ PfBroadcast
    \/ PfCatchup

Spec == Init /\ [][Next]_vars

\* Spec on the default configuration and the configurations with small budgets
InitLive ==
    /\ Init
    /\ \/ /\ config.max_attempts <= MaxBudgetLive
          /\ config.proof_regen_attempts <= MaxBudgetLive
       \/ /\ config.max_attempts = DefaultMaxAttempts
          /\ config.proof_regen_attempts = DefaultProofRegenAttempts

\* the steps the runtime takes once they can be taken: every collaborator
\* call returns, every lock is granted and the timer of the select! fires;
\* rx.changed() is not among them, the channel may stay silent for ever
Scheduled ==
    \/ MainWakeTick
    \/ MainReadFlag
    \/ StepLcCount
    \/ StepLcLeaf
    \/ StepBdeCount
    \/ StepBdeLeaf
    \/ StepBdeLookup
    \/ MainDetect
    \/ MainSetFlag
    \/ MainClearFlag
    \/ PfLockBitcoinMmr
    \/ PfLockLightClientMmr
    \/ PfBuildInitial
    \/ PfLoopHead
    \/ PfRebuild
    \/ PfProve
    \/ PfBroadcast
    \/ PfCatchup

SpecLive == InitLive /\ [][Next]_vars /\ WF_vars(Scheduled)

----------------------------------------------------------------------------
(* SpecDetect and SpecClassify: one function applied to one input.         *)

MainIdle ==
    /\ config \in { c \in Configs : c.max_attempts = 0 /\ c.proof_regen_attempts = 0 }
    /\ currently_processing = FALSE
    /\ main_pc = "off"
    /\ is_processing = FALSE
    /\ fork_type = NoFork
    /\ pf_pc = "idle"
    /\ ctx = RetryContextNew
    /\ poll_i = 0
    /\ pf_result = "none"
    /\ tx_result = NoTx
    /\ last_call = None
    /\ calls = NoCalls
    /\ steps = <<>>
    /\ reverts = NoReverts
    /\ active = 0
    /\ guards = {}
    /\ expected_mmr_root = "none"
    /\ current_root = "none"

\* the light-client MMRs a call of detect_fork starts on.  A leaf is only
\* ever compared with a leaf of its own height, so the block hashes of one
\* side can be fixed height by height; those of the BDE range over all.
DetectLcChains == { c \in DetectChains : \A i \in 1..Len(c) : c[i].block_hash = "a" }

\* one call of detect_fork on a light-client chain and any BDE chain; the
\* indexers append to either MMR, within DetectChains, while it runs
InitDetect ==
    /\ MainIdle
    /\ \E lc \in DetectLcChains, bde \in DetectChains : fn_in = DetectEnv(lc, bde)
    /\ fn_out = DetectCallAt("lc_count")

NextDetect ==
    \/ IndexerWritesLc
    \/ IndexerWritesBde
    \/ StepLcCount
    \/ StepLcLeaf
    \/ StepBdeCount
    \/ StepBdeLeaf
    \/ StepBdeLookup

SpecDetect == InitDetect /\ [][NextDetect]_vars

InitClassify ==
    /\ MainIdle
    /\ fn_in \in RevertInfo
    /\ fn_out = Pending

\* one call of classify_revert_error on the payload of fn_in
ClassifyCall ==
    /\ fn_out = Pending
    /\ fn_out' = classify_revert_error(fn_in)
    /\ UNCHANGED <<fn_in, main_vars>>

NextClassify == ClassifyCall

SpecClassify == InitClassify /\ [][NextClassify]_vars

----------------------------------------------------------------------------
(* SpecBackoff: calculate_backoff_with_jitter applied to one argument list. *)

\* multipliers in tenths: -1.5, 0.0, 0.5, 1.0 and the four the call sites use
Multipliers == {-15, 0, 5, 10, 12, 15, 20, 25}

\* attempt numbers (u32, two limbs): the 1-based ones up to MaxAttemptArg,
\* and those around 2^31, where `attempt as i32` turns negative, and
\* u32::MAX
BackoffAttempts == { [hi |-> 0, lo |-> n] : n \in 1..MaxAttemptArg }
WideAttempts ==
    { [hi |-> LimbBase \div 2 - 1, lo |-> LimbBase - 1],
      [hi |-> LimbBase \div 2, lo |-> 0],
      [hi |-> LimbBase \div 2, lo |-> 1],
      [hi |-> LimbBase - 1, lo |-> LimbBase - 1] }

\* bases up to the 2000 ms of the call sites, and bases past 2^53, where
\* the f64 rounds: 2^53 - 1 (exact itself, its products are not),
\* 0x112210F47DE98115, 0xAAAAAAAAAAAAAAAA and u64::MAX
BackoffBases ==
    { u64(n) : n \in {0, 1, 3, 500, 1000, 2000} }
    \cup {<<65535, 65535, 65535, 31>>, <<33045, 32233, 4340, 4386>>,
          <<43690, 43690, 43690, 43690>>, U64Max}

\* the argument lists: every combination with the small attempt numbers,
\* and the attempt numbers around 2^31 with three of the bases
BackoffArgs ==
    [base_delay_ms : BackoffBases,
     attempt : BackoffAttempts,
     multiplier : Multipliers,
     max_delay_ms : { u64(n) : n \in {0, 1000, 60000, 120000} } \cup {U64Max},
     jitter_ms : { u64(n) : n \in {0, 1, 5} }]
    \cup
    [base_delay_ms : {u64(0), u64(1000), U64Max},
     attempt : WideAttempts,
     multiplier : Multipliers,
     max_delay_ms : {u64(60000), U64Max},
     jitter_ms : { u64(n) : n \in {0, 5} }]

InitBackoff ==
    /\ MainIdle
    /\ fn_in \in BackoffArgs
    /\ fn_out = Pending

\* one call, with every value the random draw can take, in a build with
\* or without overflow checks
BackoffCall ==
    /\ fn_out = Pending
    /\ \E overflow_checks \in BOOLEAN :
         fn_out' \in calculate_backoff_with_jitter(
                         fn_in.base_delay_ms, fn_in.attempt, fn_in.multiplier,
                         fn_in.max_delay_ms, fn_in.jitter_ms, overflow_checks)
    /\ UNCHANGED <<fn_in, main_vars>>

NextBackoff == BackoffCall

SpecBackoff == InitBackoff /\ [][NextBackoff]_vars

----------------------------------------------------------------------------
(* SpecWork and SpecValidate: the two functions of light_client.rs.        *)

HeaderChains == UNION { [1..n -> Header] : n \in 0..MaxHeaders }

\* for the cumulative work only the block proof of a header matters
WorkHeaders == { h \in Header : h.hash = "h0" /\ h.prev = "h0" /\ h.pow
                                  /\ h.next_work = [a \in Anchors |-> a] }
WorkChains == UNION { [1..n -> WorkHeaders] : n \in 0..MaxHeaders }

\* the U256 that lies k above (k >= 0) or -k below (k < 0) the point 0
\* (e = 0) or 2^(16 e) (e >= 1); 2^256 itself, e = U256LimbCount, is the
\* first number past the range
U256At(e, k) ==
    [i \in 1..U256LimbCount |->
        IF k >= 0
        THEN IF i = 1 THEN k ELSE IF e >= 1 /\ i = e + 1 THEN 1 ELSE 0
        ELSE IF i = 1 THEN LimbBase + k ELSE IF i <= e THEN LimbBase - 1 ELSE 0]

\* the parent works of the model: those next to zero, those on either side
\* of a limb boundary and of 2^128, and those from which a chain can pass
\* the range
WorkPoints ==
    LET near == MaxHeaders * MaxProof + 2 IN
    { p \in [e : {0, 1, U256LimbCount \div 2, U256LimbCount}, k : (-near)..near] :
        /\ (p.e = 0) => (p.k >= 0)
        /\ (p.e = U256LimbCount) => (p.k < 0) }
ParentWorks == { U256At(p.e, p.k) : p \in WorkPoints }

InitWork ==
    /\ MainIdle
    /\ fn_in \in [parent_cumulative_work : ParentWorks, header_chain : WorkChains]
    /\ fn_out = Pending

WorkCall ==
    /\ fn_out = Pending
    /\ fn_out' = calculate_cumulative_work(fn_in.parent_cumulative_work, fn_in.header_chain)
    /\ UNCHANGED <<fn_in, main_vars>>

NextWork == WorkCall

SpecWork == InitWork /\ [][NextWork]_vars

\* for the validation the block proof plays no part
ValidateHeaders == { h \in Header : h.proof = Some(1) }
ValidateChains == UNION { [1..n -> ValidateHeaders] : n \in 0..MaxHeaders }
ParentHeaders == { h \in ValidateHeaders :
                      h.hash = "h0" /\ h.prev = "h0" /\ h.pow
                          /\ h.next_work = [a \in Anchors |-> a] }

\* heights at both ends of u32, the upper ones within reach of the last pair
ParentHeights ==
    {U32(0, 0), U32(12, 53392)}
        \cup { U32(LimbBase - 1, LimbBase - d) : d \in 1..MaxHeaders }

InitValidate ==
    /\ MainIdle
    /\ fn_in \in [parent_height : ParentHeights, parent_header : ParentHeaders,
                  parent_retarget_header : Anchors, header_chain : ValidateChains,
                  overflow_checks : BOOLEAN]
    /\ fn_out = Pending

ValidateCall ==
    /\ fn_out = Pending
    /\ fn_out' = validate_header_chain(fn_in.parent_height, fn_in.parent_header,
                                       fn_in.parent_retarget_header, fn_in.header_chain,
                                       fn_in.overflow_checks)
    /\ UNCHANGED <<fn_in, main_vars>>

NextValidate == ValidateCall

SpecValidate == InitValidate /\ [][NextValidate]_vars

----------------------------------------------------------------------------
(* The root-watch task of run, lines 111-131, and the one other send to    *)
(* its channel, the main task's at lines 137-140: fn_in is what            *)
(* get_mmr_root returned in the latest round, fn_out the task's position,  *)
(* its last_root, the value in the watch channel, whether the main task    *)
(* has made its initial read, and a record of the task's first MaxRounds   *)
(* rounds.                                                                  *)

\* [0u8; 32]
ZeroRoot == "zero"

\* what cde_clone.get_mmr_root() can return
WatchReads == Roots \cup {ZeroRoot, "Err"}

\* a task that publishes whatever is not the initial root
root_changed_from_initial(new_root, last_root) == new_root # ZeroRoot

\* line 117: new_root != last_root
root_changed(new_root, last_root) == new_root # last_root

InitWatch ==
    /\ MainIdle
    /\ fn_in = "none"
    /\ fn_out = [pc |-> "read", last_root |-> ZeroRoot, channel |-> ZeroRoot,
                 seed |-> "pending", log |-> <<>>]

\* lines 137-140: the main task reads the root once, before its loop, and
\* sends it whatever it is; an error is logged.  The two tasks are spawned
\* side by side, so this falls anywhere among the rounds.
MainSeedRoot ==
    /\ fn_out.seed = "pending"
    /\ \E r \in WatchReads :
         fn_out' = [fn_out EXCEPT !.seed = IF r = "Err" THEN "failed" ELSE r,
                                  !.channel = IF r = "Err" THEN @ ELSE r]
    /\ UNCHANGED <<fn_in, main_vars>>

\* lines 115-124: one read of the root and the match on its result
WatchRound ==
    /\ fn_out.pc = "read"
    /\ \E r \in WatchReads :
         LET send == r # "Err" /\ root_changed(r, fn_out.last_root)
         IN
         /\ fn_in' = r
         /\ fn_out' = [pc |-> "sleep",
                       last_root |-> IF send THEN r ELSE fn_out.last_root,
                       channel |-> IF send THEN r ELSE fn_out.channel,
                       seed |-> fn_out.seed,
                       log |-> IF Len(fn_out.log) < MaxRounds
                               THEN Append(fn_out.log, [read |-> r, sent |-> send])
                               ELSE fn_out.log]
    /\ UNCHANGED main_vars

\* line 126: sleep(10 s), then the loop starts over
WatchSleep ==
    /\ fn_out.pc = "sleep"
    /\ fn_out' = [fn_out EXCEPT !.pc = "read"]
    /\ UNCHANGED <<fn_in, main_vars>>

NextWatch == WatchRound \/ WatchSleep \/ MainSeedRoot

SpecWatch == InitWatch /\ [][NextWatch]_vars

----------------------------------------------------------------------------
(* Properties.                                                             *)

Last(s) == s[Len(s)]
IsPrefix(p, s) == Len(p) <= Len(s) /\ SubSeq(s, 1, Len(p)) = p

\* C1: single-flight.  At most one process_fork invocation is running at
\* any time, the flag is set for as long as one is running or has returned
\* without the supervisor having acted, and whenever the main loop is
\* outside the processing (waiting for a wake, reading the flag, detecting)
\* the flag is false and no invocation is left running: every return, Ok or
\* Err, is followed by the reset before the next wait.
SingleFlight ==
    /\ active \in {0, 1}
    /\ (active = 1) => (currently_processing /\ main_pc = "process")
    /\ (main_pc = "process") => currently_processing
    /\ (main_pc \in {"select", "read_flag", "detect", "set_flag"}) =>
          (~currently_processing /\ active = 0 /\ pf_pc = "idle")

\* process_fork has returned an error propagated from a collaborator and the
\* supervisor is about to act on it
SingleFlightWitness ==
    /\ main_pc = "process"
    /\ pf_pc = "returned"
    /\ pf_result \in {"Err:broadcast", "Err:prove", "Err:build_chain_transition"}
    /\ active = 0
    /\ currently_processing

\* C2: budget respect.  Within one process_fork invocation the prover is
\* called at most config.proof_regen_attempts times and the broadcaster at
\* most config.max_attempts times, for every configuration, zero budgets
\* included.
BudgetRespect ==
    /\ calls.prove <= config.proof_regen_attempts
    /\ calls.broadcast <= config.max_attempts
    /\ ctx.proof_regenerations <= config.proof_regen_attempts
    /\ ctx.attempt <= config.max_attempts

\* both budgets are used up to the last call
BudgetRespectWitness ==
    /\ pf_pc = "returned"
    /\ config.proof_regen_attempts >= 2
    /\ config.max_attempts > config.proof_regen_attempts
    /\ calls.prove = config.proof_regen_attempts
    /\ calls.broadcast = config.max_attempts

\* the tips of the two chains of fn_in, read off the chains themselves
\* a call that has returned, no indexer having written after its first read:
\* fn_in.lc and fn_in.bde are what the LC and the BDE held throughout it
DetectUndisturbed == fn_out.pc = "done" /\ ~fn_in.dirty

LcTip == fn_in.lc[Len(fn_in.lc)]
BdeTip == fn_in.bde[Len(fn_in.bde)]
ForkCondition ==
    /\ Len(fn_in.lc) >= 2
    /\ Len(fn_in.bde) >= 1
    /\ hash(LcTip) # hash(BdeTip)
    /\ LcTip.chainwork < BdeTip.chainwork
LcTipInBde == \E i \in 1..Len(fn_in.bde) : hash(fn_in.bde[i]) = hash(LcTip)

\* C3: on LC and BDE states that stay as they are during the call,
\* detect_fork returns a fork exactly when the LC has at least 2
\* leaves, the BDE at least 1, the tip hashes differ and the LC tip has
\* strictly less work than the BDE tip; a call returns an error only when
\* one of its engine reads fails, and then reports no fork.
DetectForkIff ==
    (DetectUndisturbed) =>
        /\ IsFork(fn_out.result) => ForkCondition
        /\ (ForkCondition /\ fn_out.result.tag # "Err") => IsFork(fn_out.result)
        /\ (fn_out.fail = "none") => fn_out.result.tag # "Err"
        /\ (~ForkCondition /\ fn_out.result.tag # "Err") => fn_out.result = NoFork

\* the LC holds only genesis, the BDE has strictly more work, and no fork
\* is reported
DetectForkIffWitness ==
    /\ DetectUndisturbed
    /\ fn_out.fail = "none"
    /\ Len(fn_in.lc) = 1
    /\ Len(fn_in.bde) >= 2
    /\ LcTip.chainwork < BdeTip.chainwork
    /\ hash(LcTip) # hash(BdeTip)
    /\ fn_out.result = NoFork

\* C4: detector totality and classification.  Every call on LC and BDE
\* states that stay as they are ends with None,
\* MissingBlocks, Reorganization or an error; MissingBlocks only when the
\* LC tip hash is in the BDE, Reorganization only when it is not.
DetectorTotality ==
    (DetectUndisturbed) =>
        /\ fn_out.result.tag \in {"None", "MissingBlocks", "Reorganization", "Err"}
        /\ (fn_out.result.tag = "MissingBlocks") => LcTipInBde
        /\ (fn_out.result.tag = "Reorganization") => ~LcTipInBde

\* a Reorganization is reported for non-empty chains
DetectorTotalityWitness ==
    /\ DetectUndisturbed
    /\ fn_out.result.tag = "Reorganization"
    /\ Len(fn_in.lc) >= 2
    /\ \E i \in 1..Len(fn_in.bde) : fn_in.bde[i].block_hash = LcTip.block_hash

\* C5: in MissingBlocks{lc_tip_height, bde_tip_height}, returned on LC and
\* BDE states that stay as they are during the call, the heights are the
\* two leaf counts minus 1, and the LC tip leaf is in the BDE at an index
\* strictly below bde_tip_height.
MissingBlocksHeights ==
    (DetectUndisturbed /\ fn_out.result.tag = "MissingBlocks") =>
        /\ fn_out.result.lc_tip_height = Len(fn_in.lc) - 1
        /\ fn_out.result.bde_tip_height = Len(fn_in.bde) - 1
        /\ \E i \in 0..(fn_out.result.bde_tip_height - 1) :
              hash(fn_in.bde[i + 1]) = hash(LcTip)

\* MissingBlocks with the LC tip one below the BDE tip
MissingBlocksHeightsWitness ==
    /\ DetectUndisturbed
    /\ fn_out.result.tag = "MissingBlocks"
    /\ fn_out.result.lc_tip_height = 1
    /\ fn_out.result.bde_tip_height = 2

PVF == "ProofVerificationFailure"

\* the params and proof in the context all come from the latest chain
\* transition built
ProofIsFresh ==
    /\ ctx.chain_transition.some
    /\ ctx.chain_transition.v.build = calls.build
    /\ ctx.public_values = Some(LightClientPublicInput(ctx.chain_transition.v))
    /\ ctx.block_proof_params =
          Some(BlockProofParams(LightClientPublicInput(ctx.chain_transition.v)))
    /\ ctx.proof_bytes \in {<<>>, <<"proof", calls.build>>}

\* C6: after a broadcast reverted with ProofVerificationFailure and the
\* loop went on, the attempt that follows has rebuilt the chain transition
\* and then called the prover once before it broadcasts, and it broadcasts
\* the params and proof made from that rebuilt transition; a processing of
\* exactly one such revert followed by a success has made 2 prover calls
\* and 2 broadcasts.
RegenAfterProofFailure ==
    /\ (pf_pc \in {"rebuild", "prove", "broadcast"} /\ tx_result.error_type = PVF) =>
          /\ ctx.proof_regenerations <= config.proof_regen_attempts
          /\ pf_pc = "rebuild" => steps = <<>>
          /\ pf_pc = "prove" => steps = <<"build">>
          /\ pf_pc = "broadcast" => (steps = <<"build", "prove">> /\ ProofIsFresh)
    /\ (pf_pc = "loop" /\ tx_result.error_type = PVF) =>
          ctx.last_error_type = Some(PVF)
    /\ (IsPrefix(<<"build", "prove", "broadcast">>, steps) /\ ctx.attempt >= 2) =>
          /\ last_call.v.block_proof_params.build = calls.build
          /\ last_call.v.proof_bytes \in {<<>>, <<"proof", calls.build>>}
    /\ (pf_pc = "returned" /\ pf_result = "Ok"
          /\ reverts[PVF] = 1 /\ calls.broadcast = 2) =>
          (calls.prove = 2 /\ calls.build = 2)

\* one InvalidBlockInclusionProof-class revert, then a success
RegenAfterProofFailureWitness ==
    /\ pf_pc = "returned"
    /\ pf_result = "Ok"
    /\ reverts[PVF] = 1
    /\ calls.broadcast = 2
    /\ calls.prove = 2
    /\ last_call.v.block_proof_params.build = 2

\* the latest broadcast was made in the current attempt
TxIsOfThisAttempt == \E i \in 1..Len(steps) : steps[i] = "broadcast"

\* C7: a ProofVerificationFailure revert with the proof budget used up
\* ends process_fork with an error at once: no sleep, no further prover call
\* or broadcast.  When every broadcast reverts with ProofVerificationFailure
\* and no collaborator fails, exactly min(proof_regen_attempts,
\* max_attempts) broadcasts are made.
ProofBudgetTerminal ==
    /\ (TxIsOfThisAttempt /\ tx_result.error_type = PVF
          /\ ctx.proof_regenerations >= config.proof_regen_attempts) =>
          /\ pf_pc = "returned"
          /\ pf_result = "Err:proof_verification"
          /\ Last(steps) = "broadcast"
    /\ (TxIsOfThisAttempt /\ tx_result.error_type = PVF
          /\ ctx.proof_regenerations < config.proof_regen_attempts) =>
          /\ pf_pc = "loop" \/ (pf_pc = "returned" /\ pf_result = "Err:max_attempts")
          /\ Last(steps) = "sleep"
    /\ (pf_result = "Err:proof_verification") =>
          /\ tx_result.error_type = PVF
          /\ ctx.proof_regenerations = config.proof_regen_attempts
          /\ Last(steps) = "broadcast"
    /\ (pf_pc = "returned"
          /\ reverts[PVF] = calls.broadcast
          /\ pf_result \in {"Err:proof_verification", "Err:max_attempts", "Err:proof_budget"}) =>
          calls.broadcast = Min(config.proof_regen_attempts, config.max_attempts)

\* every broadcast reverted with ProofVerificationFailure until the proof
\* budget, smaller than the attempt budget, ran out
ProofBudgetTerminalWitness ==
    /\ pf_pc = "returned"
    /\ pf_result = "Err:proof_verification"
    /\ reverts[PVF] = calls.broadcast
    /\ calls.broadcast = config.proof_regen_attempts
    /\ config.proof_regen_attempts >= 2
    /\ config.max_attempts > config.proof_regen_attempts
    /\ calls.sleep = calls.broadcast - 1

\* the state the main loop is in between two processings
Released ==
    /\ main_pc = "select"
    /\ ~currently_processing
    /\ pf_pc = "idle"
    /\ ctx = RetryContextNew
    /\ active = 0

\* C8: an InvariantViolation revert or an InvalidRequest outcome ends
\* process_fork at once with an error: no sleep and no further prover call
\* or broadcast, whatever attempts remain.  The supervisor's step after any
\* return clears the flag and goes back to waiting for a wake, in the state
\* from which it detects and processes forks.
TerminalOutcomes ==
    /\ [](/\ (tx_result.error_type = "InvariantViolation") =>
                (/\ pf_pc = "returned"
                 /\ pf_result = "Err:invariant_violation"
                 /\ Last(steps) = "broadcast")
          /\ (tx_result.tag = "InvalidRequest") =>
                (/\ pf_pc = "returned"
                 /\ pf_result = "Err:invalid_request"
                 /\ Last(steps) = "broadcast")
          /\ (pf_result \in {"Err:invariant_violation", "Err:invalid_request"}) =>
                tx_result.tag \in {"Revert", "InvalidRequest"})
    /\ [][(pf_pc = "returned") => Released']_vars

\* a typed-ChainworkTooLow-class revert ended the processing on its first
\* attempt, with attempts left
TerminalOutcomesWitness ==
    /\ pf_pc = "returned"
    /\ pf_result = "Err:invariant_violation"
    /\ ctx.attempt = 1
    /\ config.max_attempts >= 2
    /\ calls.sleep = 0
    /\ calls.broadcast = 1

KnownProofErrors == {"InvalidBlockInclusionProof", "InvalidSwapBlockInclusionProof"}
KnownInvariantErrors ==
    {"ChainworkTooLow", "NotEnoughConfirmationBlocks", "NotEnoughConfirmations"}

\* the documented fallback table, in its order: the patterns of each row
\* and the kind the row gives
FallbackTable ==
    << [pats |-> {PatInvalidProof, PatVerificationFailed, PatInclusionProof},
        kind |-> "ProofVerificationFailure"],
       [pats |-> {PatNonce}, kind |-> "NonceError"],
       [pats |-> {PatGas}, kind |-> "GasError"],
       [pats |-> {PatSlippage}, kind |-> "SlippageError"],
       [pats |-> {PatInvariant, PatAssertion}, kind |-> "InvariantViolation"] >>

RowMatches(i, message) ==
    \E p \in FallbackTable[i].pats : contains(to_lowercase(message), p)

\* the kind of the earliest matching row, UnknownRevert when none matches
FallbackKind(message) ==
    IF \E i \in 1..Len(FallbackTable) : RowMatches(i, message)
    THEN FallbackTable[CHOOSE i \in 1..Len(FallbackTable) :
                          /\ RowMatches(i, message)
                          /\ \A j \in 1..(i - 1) : ~RowMatches(j, message)].kind
    ELSE "UnknownRevert"

\* C9: the typed decode has strict priority.  A payload decoding to one of
\* the two inclusion-proof errors is ProofVerificationFailure, one decoding
\* to ChainworkTooLow or a not-enough-confirmations error is
\* InvariantViolation, whatever the message says; every other payload gets
\* the kind the message gives.
TypedPriority ==
    (fn_out # Pending) =>
        /\ (fn_in.decoded \in KnownProofErrors) =>
              (fn_out.kind = "ProofVerificationFailure" /\ fn_out.strategy.should_retry)
        /\ (fn_in.decoded \in KnownInvariantErrors) =>
              (fn_out.kind = "InvariantViolation" /\ ~fn_out.strategy.should_retry)
        /\ (fn_in.decoded \notin KnownProofErrors \cup KnownInvariantErrors) =>
              fn_out.kind = FallbackKind(fn_in.message)

\* ChainworkTooLow with a message that alone would be a proof failure
TypedPriorityWitness ==
    /\ fn_out # Pending
    /\ fn_in.decoded = "ChainworkTooLow"
    /\ FallbackKind(fn_in.message) = "ProofVerificationFailure"
    /\ fn_out.kind = "InvariantViolation"

\* C10: the substring fallback is first-match-wins in the documented order
\* on the lower-cased message, so matching ignores case and a message with
\* several patterns gets the kind of the earliest row.
SubstringFallback ==
    (fn_out # Pending /\ ~classify_decoded(fn_in.decoded).matched) =>
        /\ fn_out.kind = FallbackKind(fn_in.message)
        /\ fn_out.strategy.error_message = to_lowercase(fn_in.message)
        /\ (contains(to_lowercase(fn_in.message), PatInvalidProof)) =>
              (fn_out.kind = "ProofVerificationFailure" /\ fn_out.strategy.should_retry)

\* an upper-case INVARIANT and a mixed-case Invalid Proof in one message
SubstringFallbackWitness ==
    /\ fn_out # Pending
    /\ fn_in.decoded = "None"
    /\ contains(fn_in.message, <<"I", "N", "V", "A", "R", "I", "A", "N", "T">>)
    /\ contains(fn_in.message, <<"I", "n", "v", "a", "l", "i", "d", " ", "P", "r", "o", "o", "f">>)
    /\ fn_out.kind = "ProofVerificationFailure"
    /\ fn_out.strategy.should_retry

\* C11: for every revert payload the strategy has should_retry = FALSE
\* exactly when the kind is InvariantViolation, and then max_attempts = 0
\* and delay_ms = 0; should_regenerate_proof is TRUE exactly when the kind
\* is ProofVerificationFailure or SlippageError.
StrategyFlags ==
    (fn_out # Pending) =>
        /\ (~fn_out.strategy.should_retry) <=> (fn_out.kind = "InvariantViolation")
        /\ (~fn_out.strategy.should_retry) =>
              (fn_out.strategy.max_attempts = 0 /\ fn_out.strategy.delay_ms = 0)
        /\ fn_out.strategy.should_retry =>
              (fn_out.strategy.max_attempts > 0 /\ fn_out.strategy.delay_ms > 0)
        /\ fn_out.strategy.should_regenerate_proof <=>
              (fn_out.kind \in {"ProofVerificationFailure", "SlippageError"})

\* a typed ChainworkTooLow payload whose message names slippage: fatal, no
\* regeneration
StrategyFlagsWitness ==
    /\ fn_out # Pending
    /\ fn_in.decoded = "ChainworkTooLow"
    /\ contains(to_lowercase(fn_in.message), PatSlippage)
    /\ fn_out.kind = "InvariantViolation"
    /\ ~fn_out.strategy.should_retry
    /\ ~fn_out.strategy.should_regenerate_proof
    /\ fn_out.strategy.max_attempts = 0

\* Numbers of the u64 range as points: [h, k] is h * 2^48 + k, k small and
\* of either sign; 2^64 is [h |-> LimbBase, k |-> 0].
Point(h, k) == [h |-> h, k |-> k]
PointLe(p, q) == p.h < q.h \/ (p.h = q.h /\ p.k <= q.k)
PointMin(p, q) == IF PointLe(p, q) THEN p ELSE q
U64MaxPoint == Point(LimbBase, -1)

\* the u64 at a point, and the point of a u64 that is next to a multiple
\* of 2^48
U64At(p) ==
    IF p.k >= 0 THEN <<p.k % LimbBase, p.k \div LimbBase, 0, p.h>>
    ELSE <<LimbBase + p.k, LimbBase - 1, LimbBase - 1, p.h - 1>>
PointOf(x) ==
    IF x[3] = 0 /\ 2 * x[2] < LimbBase THEN Point(x[4], x[1] + x[2] * LimbBase)
    ELSE Point(x[4] + 1, x[1] - LimbBase)

RECURSIVE Gcd(_, _)
Gcd(a, b) == IF b = 0 THEN a ELSE Gcd(b, a % b)

\* a multiplier in tenths as a fraction in lowest terms (2.5 is 5 / 2)
MultNum(multiplier) == multiplier \div Gcd(multiplier, 10)
MultDen(multiplier) == 10 \div Gcd(multiplier, 10)

\* the bases whose products are written out as points: those below 2^31
\* and u64::MAX
WrittenOut ==
    \/ fn_in.base_delay_ms = U64Max
    \/ /\ fn_in.base_delay_ms[3] = 0
       /\ fn_in.base_delay_ms[4] = 0
       /\ 2 * fn_in.base_delay_ms[2] < LimbBase

\* such a base as the f64 holds it: u64::MAX becomes 2^64, the others are
\* exact
BaseAsF64 ==
    IF fn_in.base_delay_ms = U64Max THEN Point(LimbBase, 0)
    ELSE PointOf(fn_in.base_delay_ms)

\* the attempt numbers below 2^31, where `attempt as i32 - 1` is
\* attempt - 1, and those whose products are written out
AttemptInI32 == fn_in.attempt.hi < LimbBase \div 2
AttemptWrittenOut == fn_in.attempt.hi = 0 /\ fn_in.attempt.lo \in 1..MaxAttemptArg
AttemptIs(hi, lo) == fn_in.attempt = [hi |-> hi, lo |-> lo]

\* |mult|^(attempt - 1) as the fraction PowerNum / PowerDen, and whether
\* the product is below zero
MultAbs == IF fn_in.multiplier < 0 THEN 0 - fn_in.multiplier ELSE fn_in.multiplier
PowerNum ==
    IF fn_in.attempt.lo = 1 THEN 1 ELSE MultNum(MultAbs)^(fn_in.attempt.lo - 1)
PowerDen == MultDen(MultAbs)^(fn_in.attempt.lo - 1)
ProductNegative == fn_in.multiplier < 0 /\ fn_in.attempt.lo % 2 = 0

\* the product base * mult^(attempt - 1) truncated toward zero to whole
\* milliseconds (the products of 2^64 that stay in range are whole), a
\* negative product giving 0
ProductFloor ==
    IF ProductNegative THEN Point(0, 0)
    ELSE IF BaseAsF64.h = 0 THEN Point(0, (BaseAsF64.k * PowerNum) \div PowerDen)
    ELSE Point((BaseAsF64.h * PowerNum) \div PowerDen, 0)

\* ... saturated at u64::MAX, then capped
CappedPoint ==
    PointMin(PointMin(ProductFloor, U64MaxPoint), PointOf(fn_in.max_delay_ms))
CappedFloor == U64At(CappedPoint)

DelayPoint == PointOf(fn_out.delay)
JitterMs == PointOf(fn_in.jitter_ms).k

\* the exponent the code uses where the subtraction does not panic, the
\* f64 product with it cast to u64, and that capped
ExponentUsed == backoff_exponent(fn_in.attempt, FALSE).n
DelayCapped ==
    u64_min(exponential_delay(fn_in.base_delay_ms, ExponentUsed, fn_in.multiplier),
            fn_in.max_delay_ms)

\* C12 as amended: whenever the call returns, for every attempt >= 1, the
\* delay d satisfies c <= d <= c + jitter_ms, where c is the smaller of
\* max_delay_ms and the f64 product base * mult^n cast to u64, that is
\* truncated toward zero to whole milliseconds, 0 for a negative product
\* or NaN and u64::MAX from 2^64 on.  d never exceeds u64::MAX and is
\* u64::MAX when c + the jitter drawn would pass it (it never wraps below
\* c); with jitter_ms = 0 the delay is exactly c.  The exponent n is
\* `attempt as i32 - 1`: attempt - 1 for attempt < 2^31 (for the bases
\* below 2^31 and for u64::MAX, and the attempts up to MaxAttemptArg, c is
\* the exact product truncated and capped); attempt - 1 - 2^32, a negative
\* power, for attempt > 2^31 (at attempt = 2^31 + 1 a multiplier above 1
\* gives c = 0, one between 0 and 1 gives c = the cap for a base that is
\* not 0); at attempt = 2^31 the subtraction overflows, and the call
\* panics in a build with overflow checks and takes n = 2^31 - 1 in one
\* without.  The call panics in no other case.
BackoffLawTruncated ==
    /\ (fn_out # Pending /\ fn_out.tag = "panic") => AttemptIs(LimbBase \div 2, 0)
    /\ (fn_out # Pending /\ fn_out.tag = "Ok" /\ fn_in.attempt # [hi |-> 0, lo |-> 0]) =>
        LET c == DelayCapped IN
        /\ limbs_le(c, fn_out.delay)
        /\ \E j \in 0..JitterMs :
              LET sum == add_limbs(c, u64(j), 1, 0, <<>>)
              IN fn_out.delay = IF sum.carry # 0 THEN U64Max ELSE sum.limbs
        /\ (fn_in.jitter_ms = u64(0)) => (fn_out.delay = c)
        /\ (AttemptInI32 => ExponentUsed = fn_in.attempt.hi * LimbBase + fn_in.attempt.lo - 1)
        /\ (WrittenOut /\ AttemptWrittenOut) =>
              /\ c = CappedFloor
              /\ U64At(DelayPoint) = fn_out.delay
              /\ PointLe(CappedPoint, DelayPoint)
              /\ PointLe(DelayPoint, Point(CappedPoint.h, CappedPoint.k + JitterMs))
              /\ PointLe(DelayPoint, U64MaxPoint)
        /\ AttemptIs(LimbBase \div 2, 1) =>
              /\ ExponentUsed = 0 - 2147483647 - 1
              /\ (MultAbs > 10) => c = u64(0)
              /\ (MultAbs = 10) =>
                    c = u64_min(f64_as_u64(as_f64(fn_in.base_delay_ms)), fn_in.max_delay_ms)
              /\ (MultAbs < 10 /\ fn_in.base_delay_ms # u64(0)) => c = fn_in.max_delay_ms
              /\ (MultAbs < 10 /\ fn_in.base_delay_ms = u64(0)) => c = u64(0)
        /\ AttemptIs(LimbBase - 1, LimbBase - 1) => ExponentUsed = 0 - 2
        /\ AttemptIs(LimbBase \div 2, 0) => ExponentUsed = 2147483647

\* the ProofVerificationFailure call site (base 1000 / 2, multiplier 1.5)
\* at attempt 4: the product 1687.5 is cut to 1687, and the largest draw
\* of the jitter is added
BackoffLawTruncatedWitness ==
    /\ fn_out # Pending
    /\ fn_in = [base_delay_ms |-> u64(500), attempt |-> [hi |-> 0, lo |-> 4],
                multiplier |-> 15, max_delay_ms |-> u64(60000), jitter_ms |-> u64(5)]
    /\ CappedFloor = u64(1687)
    /\ fn_out = [tag |-> "Ok", delay |-> u64(1692)]

\* C12 as stated: min(base * mult^(attempt - 1), cap) <= d and
\* d <= min(base * mult^(attempt - 1), cap) + jitter_ms with the product
\* taken exactly (both sides multiplied by its denominator), and d equal
\* to that minimum when jitter_ms = 0; written out for the bases and
\* delays below 2^48, the multipliers that are not negative and the
\* attempts up to MaxAttemptArg; and at attempt = 2^31 + 1, where a
\* multiplier above 1 takes the product of a base that is not 0 past any
\* cap, cap <= d.
BackoffLawExact ==
    /\ (/\ fn_out # Pending
        /\ fn_out.tag = "Ok"
        /\ WrittenOut /\ AttemptWrittenOut /\ fn_in.multiplier >= 0
        /\ BaseAsF64.h = 0 /\ DelayPoint.h = 0) =>
           /\ \/ BaseAsF64.k * PowerNum <= DelayPoint.k * PowerDen
              \/ PointLe(PointOf(fn_in.max_delay_ms), DelayPoint)
           /\ (DelayPoint.k - JitterMs) * PowerDen <= BaseAsF64.k * PowerNum
           /\ PointLe(Point(0, DelayPoint.k - JitterMs), PointOf(fn_in.max_delay_ms))
    /\ (/\ fn_out # Pending
        /\ fn_out.tag = "Ok"
        /\ AttemptIs(LimbBase \div 2, 1)
        /\ fn_in.multiplier > 10
        /\ fn_in.base_delay_ms # u64(0)) =>
           limbs_le(fn_in.max_delay_ms, fn_out.delay)

\* C13: the catch-up after a Success is bounded.  It reads the CDE root at
\* most 15 times, the root it waits for is the newMmrRoot of the public
\* values of the proof that was broadcast, it is still polling only while
\* no read has equalled that root, and process_fork then returns Ok whether
\* the last read matched, mismatched or failed; after the Success the
\* attempt makes no prover call and no broadcast.
CatchupBounded ==
    /\ calls.cde_read <= CatchupPolls
    /\ (tx_result.tag = "Success") =>
          /\ pf_pc \in {"catchup", "returned"}
          /\ (pf_pc = "returned") => (pf_result = "Ok")
          /\ Last(steps) = "broadcast"
          /\ expected_mmr_root = last_call.v.block_proof_params.newMmrRoot
          /\ expected_mmr_root = ctx.public_values.v.newMmrRoot
    /\ (pf_pc = "catchup") =>
          /\ tx_result.tag = "Success"
          /\ poll_i \in 1..CatchupPolls
          /\ calls.cde_read = poll_i - 1
          /\ current_root # expected_mmr_root
    /\ (pf_pc = "returned" /\ pf_result = "Ok") =>
          /\ tx_result.tag = "Success"
          /\ calls.cde_read = poll_i
          /\ current_root = expected_mmr_root \/ calls.cde_read = CatchupPolls
    /\ (pf_pc = "returned" /\ pf_result # "Ok") => calls.cde_read = 0

\* fifteen reads, the last of them failed, and process_fork returned Ok
CatchupBoundedWitness ==
    /\ pf_pc = "returned"
    /\ pf_result = "Ok"
    /\ calls.cde_read = CatchupPolls
    /\ current_root = "Err"
    /\ ctx.attempt >= 2

\* the main loop is between two processings
BetweenProcessings == main_pc \in {"select", "read_flag", "detect", "set_flag"}

\* C14 as amended: after a successful update the supervisor's next
\* detect_fork call happens only after the CDE root was read equal to the
\* submitted newMmrRoot, or after 15 reads of the CDE root none of which
\* returned it; while the catch-up is polling the main loop is inside
\* process_fork and makes no decision.
DetectAfterCatchup ==
    /\ (pf_pc = "catchup") => (main_pc = "process" /\ currently_processing)
    /\ (BetweenProcessings /\ expected_mmr_root # "none") =>
          \/ current_root = expected_mmr_root
          \/ (poll_i = CatchupPolls /\ current_root # "none")

\* the main loop is about to call detect_fork after a successful update
\* whose catch-up ended with its fifteenth read still not the new root
DetectAfterCatchupWitness ==
    /\ main_pc = "detect"
    /\ expected_mmr_root \in Roots
    /\ current_root \in Roots
    /\ current_root # expected_mmr_root
    /\ poll_i = CatchupPolls

\* C14 as stated: whenever the main loop is about to call detect_fork after
\* a successful update, the CDE root has been read equal to the submitted
\* newMmrRoot.
DetectOnlyAfterRootObserved ==
    (main_pc = "detect" /\ expected_mmr_root # "none") =>
        current_root = expected_mmr_root

\* C15: termination and retry from scratch.  Every process_fork invocation
\* returns, after at most max_attempts loop iterations; no Option it
\* unwraps is None; when every attempt ended in a retryable failure it
\* returns the max-attempts error, having broadcast and slept once per
\* attempt; and every processing starts with a fresh RetryContext, whatever
\* the processing before it left.
TerminationAndFreshContext ==
    /\ [](/\ ctx.attempt <= config.max_attempts
          /\ (pf_pc = "entry") => (ctx = RetryContextNew /\ calls = NoCalls)
          /\ (pf_pc \in {"rebuild", "prove"}) => ctx.chain_transition.some
          /\ (pf_pc = "broadcast") => ctx.block_proof_params.some
          /\ (pf_pc = "catchup") => ctx.public_values.some
          /\ (pf_result = "Err:max_attempts") =>
                (/\ ctx.attempt = config.max_attempts
                 /\ calls.broadcast = config.max_attempts
                 /\ calls.sleep = config.max_attempts
                 /\ tx_result.tag \in {"None", "Revert", "UnknownError"})
          /\ (pf_pc = "returned" /\ ctx.attempt = config.max_attempts
                /\ calls.sleep = config.max_attempts /\ calls.cde_read = 0) =>
                (/\ pf_result # "Ok"
                 /\ (config.max_attempts > 0) => (pf_result = "Err:max_attempts")))
    /\ [][(pf_pc # "entry" /\ pf_pc' = "entry") =>
              (ctx' = RetryContextNew /\ calls' = NoCalls /\ main_pc' = "process")]_vars
    /\ (pf_pc = "entry") ~> (pf_pc = "returned")

\* both attempts of a processing ended in a retryable failure and it
\* returned the max-attempts error
TerminationAndFreshContextWitness ==
    /\ pf_pc = "returned"
    /\ pf_result = "Err:max_attempts"
    /\ config.max_attempts = 2
    /\ ctx.attempt = 2
    /\ calls.broadcast = 2
    /\ ctx.last_error_type = Some("NetworkError")

\* C16: supervisor liveness.  With the timer of the select! firing and
\* every collaborator call returning, the main loop calls detect_fork again
\* and again, whether or not the MMR-root channel ever reports a change and
\* whatever detect_fork and process_fork return; it is never anywhere but
\* in its loop.
SupervisorLiveness ==
    /\ [](main_pc \in {"select", "read_flag", "detect", "set_flag", "process"})
    /\ []<>(main_pc = "detect")
    /\ [](main_pc = "process" => <>(main_pc = "select"))

\* the main loop is about to call detect_fork again after a processing in
\* which a CDE read failed
SupervisorLivenessWitness ==
    /\ main_pc = "detect"
    /\ expected_mmr_root # "none"
    /\ current_root = "Err"
    /\ ~currently_processing

\* a collaborator call of process_fork is made in this step
CollaboratorCall ==
    \/ calls'.build > calls.build
    \/ calls'.prove > calls.prove
    \/ calls'.broadcast > calls.broadcast

\* C17: no fork, no action.  When detect_fork returns None or an error the
\* main loop goes straight back to waiting for a wake with the flag unset
\* and process_fork not entered; while it waits, reads the flag or detects,
\* the flag is false and no call has been made; every build, prover call
\* and broadcast is made inside a processing that a detected fork started.
NoForkNoAction ==
    /\ [][(main_pc = "detect" /\ fn_out.pc = "done" /\ fn_out' # fn_out
               /\ ~IsFork(fork_type')) =>
              (/\ main_pc' = "select"
               /\ ~currently_processing'
               /\ pf_pc' = "idle"
               /\ active' = 0
               /\ calls' = NoCalls)]_vars
    /\ [](main_pc \in {"select", "read_flag", "detect"} =>
              (~currently_processing /\ pf_pc = "idle" /\ calls = NoCalls
                  /\ last_call = None))
    /\ [](main_pc \in {"set_flag", "process"} => IsFork(fork_type))
    /\ [][CollaboratorCall =>
              (main_pc = "process" /\ currently_processing /\ IsFork(fork_type))]_vars

\* detect_fork has just failed on a read and the main loop is back at the
\* select!, flag unset, nothing called
NoForkNoActionWitness ==
    /\ main_pc = "select"
    /\ fork_type.tag = "Err"
    /\ ~currently_processing
    /\ pf_pc = "idle"
    /\ calls = NoCalls

\* where the parent work of fn_in lies: its point and its offset from it
ParentOrigin ==
    CHOOSE p \in WorkPoints : U256At(p.e, p.k) = fn_in.parent_cumulative_work

\* the offset, from that point, of the parent work plus the block proofs of
\* the first n headers of fn_in, as a number without width (a missing proof
\* counts 0)
RECURSIVE OffsetUpTo(_)
OffsetUpTo(n) ==
    IF n = 0 THEN ParentOrigin.k
    ELSE OffsetUpTo(n - 1) +
           (IF fn_in.header_chain[n].proof.some THEN fn_in.header_chain[n].proof.v ELSE 0)

\* that sum is within the U256 range, and the U256 it then is
InRange(n) == ~(ParentOrigin.e = U256LimbCount /\ OffsetUpTo(n) >= 0)
WorkUpTo(n) == U256At(ParentOrigin.e, OffsetUpTo(n))

ProofsDefinedUpTo(n) == \A j \in 1..n : fn_in.header_chain[j].proof.some

\* a <= b as numbers: equal, or b is larger at the topmost limb that differs
U256Leq(a, b) ==
    \/ a = b
    \/ \E i \in 1..U256LimbCount :
          /\ a[i] < b[i]
          /\ \A j \in (i + 1)..U256LimbCount : a[j] = b[j]

\* C18: header-chain round trip.  When calculate_cumulative_work returns,
\* the list has |chain| + 1 values, starts with the parent work, never
\* decreases, each value is its predecessor plus the block proof of the
\* header at that position, and its last value is final_work (the parent
\* work for an empty chain); it returns whenever every block proof is
\* defined and the total fits.
CumulativeWorkRoundTrip ==
    (fn_out # Pending) =>
        /\ (fn_out.tag = "Ok") =>
              /\ Len(fn_out.all_works) = Len(fn_in.header_chain) + 1
              /\ fn_out.all_works[1] = fn_in.parent_cumulative_work
              /\ \A i \in 1..Len(fn_in.header_chain) :
                    /\ U256Leq(fn_out.all_works[i], fn_out.all_works[i + 1])
                    /\ fn_out.all_works[i] = WorkUpTo(i - 1)
                    /\ fn_out.all_works[i + 1] = WorkUpTo(i)
              /\ fn_out.final_work = fn_out.all_works[Len(fn_out.all_works)]
              /\ (fn_in.header_chain = <<>>) =>
                    (fn_out.final_work = fn_in.parent_cumulative_work)
        /\ (/\ ProofsDefinedUpTo(Len(fn_in.header_chain))
            /\ InRange(Len(fn_in.header_chain))) => (fn_out.tag = "Ok")

\* a chain of two headers with different block proofs on a parent work just
\* below a limb boundary, which the sum crosses
CumulativeWorkRoundTripWitness ==
    /\ fn_out # Pending
    /\ fn_out.tag = "Ok"
    /\ fn_in.parent_cumulative_work = U256At(1, -1)
    /\ Len(fn_in.header_chain) = 2
    /\ fn_in.header_chain[1].proof # fn_in.header_chain[2].proof
    /\ fn_out.final_work = WorkUpTo(2)
    /\ fn_out.final_work[2] = 1

\* the chain of fn_in with the parent header in front: pair i, counted from
\* 0, is (HeadersWithParent[i + 1], HeadersWithParent[i + 2])
HeadersWithParent == <<fn_in.parent_header>> \o fn_in.header_chain

\* the retarget anchor pair i is checked against: the parent's for pair 0,
\* then what the work check of the pair before returned
RECURSIVE AnchorOfPair(_)
AnchorOfPair(i) ==
    IF i = 0 THEN fn_in.parent_retarget_header
    ELSE LET a == AnchorOfPair(i - 1) IN
         IF a = "Err" THEN "Err" ELSE HeadersWithParent[i + 1].next_work[a]

PairConnected(i) == HeadersWithParent[i + 2].prev = HeadersWithParent[i + 1].hash
PairWorkOk(i) ==
    /\ AnchorOfPair(i) # "Err"
    /\ HeadersWithParent[i + 2].next_work[AnchorOfPair(i)] # "Err"
PairPowOk(i) == HeadersWithParent[i + 2].pow
PairOk(i) == PairConnected(i) /\ PairWorkOk(i) /\ PairPowOk(i)

Pairs == 0..(Len(fn_in.header_chain) - 1)
FirstFailingPair == CHOOSE i \in Pairs : ~PairOk(i) /\ \A j \in 0..(i - 1) : PairOk(j)

\* C19: validate_header_chain succeeds exactly when the chain is non-empty
\* and every consecutive pair, from (parent_header, chain[0]) on, passes
\* the connection check, the work-requirement check against the anchor in
\* force (replaced by that check's result after each pair) and the
\* proof-of-work check; otherwise it fails with the category of the first
\* failing check of the first failing pair, in the order connection, work
\* requirement, proof of work, and an empty chain fails with the non-empty
\* requirement.  (Stated for every parent_height and every build.)
ValidateIff ==
    (fn_out # Pending) =>
        /\ (fn_out.tag = "Ok") <=>
              (fn_in.header_chain # <<>> /\ \A i \in Pairs : PairOk(i))
        /\ (fn_in.header_chain = <<>>) => (fn_out = Panic(MsgEmpty))
        /\ (fn_in.header_chain # <<>> /\ \E i \in Pairs : ~PairOk(i)) =>
              fn_out = Panic(IF ~PairConnected(FirstFailingPair) THEN MsgNotConnected
                             ELSE IF ~PairWorkOk(FirstFailingPair) THEN MsgWork
                             ELSE MsgPoW)

\* the first position at which the running work passes the U256 range, all
\* block proofs up to it being defined
OverflowAt(n) ==
    /\ n \in 1..Len(fn_in.header_chain)
    /\ ProofsDefinedUpTo(n)
    /\ ~InRange(n)

\* C20: overflow of the cumulative work is fatal.  When adding a header's
\* block proof to the running work would pass the U256 range,
\* calculate_cumulative_work fails with the overflow message and returns
\* nothing; it fails that way in no other case; a list it returns holds
\* the exact sums, none above the range and none below its predecessor.
OverflowFatal ==
    (fn_out # Pending) =>
        /\ (\E n \in 1..Len(fn_in.header_chain) : OverflowAt(n)) <=>
              (fn_out = Panic(MsgOverflow))
        /\ (fn_out.tag = "Ok") =>
              \A i \in 1..Len(fn_out.all_works) :
                 /\ InRange(i - 1)
                 /\ fn_out.all_works[i] = WorkUpTo(i - 1)
                 /\ U256Leq(fn_out.all_works[i], U256Max)
                 /\ (i > 1) => U256Leq(fn_out.all_works[i - 1], fn_out.all_works[i])

\* the first header fits and the second would pass the range by one
OverflowFatalWitness ==
    /\ fn_out # Pending
    /\ Len(fn_in.header_chain) = 2
    /\ ProofsDefinedUpTo(2)
    /\ InRange(1)
    /\ ParentOrigin.e = U256LimbCount
    /\ OffsetUpTo(2) = 0
    /\ fn_out = Panic(MsgOverflow)

\* C21: read guards are never held across a prover call or a broadcast.
\* process_fork holds a guard only between taking it and the end of the
\* chain-transition build it was taken for; when it tests the proof budget
\* and calls the prover, when it broadcasts, sleeps or polls the CDE, and
\* when it has returned, it holds none.
NoGuardAcrossProver ==
    /\ (guards # {}) =>
          (main_pc = "process"
             /\ pf_pc \in {"entry_bde", "entry_locked", "rebuild_bde", "rebuild_locked"})
    /\ (pf_pc \in {"entry_locked", "rebuild_locked"}) =>
          (guards = {"bitcoin_mmr", "light_client_mmr"})
    /\ (pf_pc \in {"prove", "broadcast", "catchup", "loop", "returned", "idle"}) =>
          (guards = {})

\* the prover is about to be called for a regeneration, after a rebuild
\* under the guards, and none is held
NoGuardAcrossProverWitness ==
    /\ pf_pc = "prove"
    /\ steps = <<"build">>
    /\ ctx.proof_regenerations >= 1
    /\ calls.build = 2
    /\ guards = {}

\* the errors of a collaborator with which an iteration that has to
\* regenerate the proof can end before it broadcasts
ReproofErrors ==
    {"Err:build_chain_transition", "Err:program_input", "Err:prove"}

\* the revert of the latest broadcast was classified SlippageError
AfterSlippage == main_pc = "process" /\ tx_result.error_type = "SlippageError"

\* what holds after such a revert whatever the proof budget: the coercion,
\* and no broadcast in the next iteration without a rebuild and a prover
\* call before it
ReproofBeforeBroadcast ==
    /\ revert_handling("FrontrunningProtection", ctx, config)
          = revert_handling("SlippageError", ctx, config)
    /\ ~revert_handling("SlippageError", ctx, config).terminal
    /\ revert_handling("SlippageError", ctx, config).last_error_type
          = "ProofVerificationFailure"
    /\ AfterSlippage =>
          /\ ctx.last_error_type = Some("ProofVerificationFailure")
          /\ (pf_pc = "loop") => (Last(steps) = "sleep")
          /\ (pf_pc = "prove") => (steps = <<"build">>)
          /\ (pf_pc = "broadcast") =>
                /\ steps = <<"build", "prove">>
                /\ ctx.chain_transition.v.build = calls.build
                /\ ctx.block_proof_params
                      = Some(BlockProofParams(LightClientPublicInput(ctx.chain_transition.v)))
                /\ ctx.block_proof_params.v # last_call.v.block_proof_params
                /\ ctx.proof_regenerations = calls.prove
                /\ calls.prove >= 2

\* C22 as amended: a revert classified SlippageError or
\* FrontrunningProtection is not terminal and leaves last_error_type =
\* ProofVerificationFailure (both kinds are handled alike).  The next
\* iteration rebuilds the chain transition; with proof budget left it calls
\* the prover and only then broadcasts, sending the parameters and proof
\* of that rebuild; with the budget spent (proof_regenerations =
\* proof_regen_attempts) it returns the proof-budget error after the
\* rebuild, without a prover call or a broadcast.  (Otherwise it ends
\* without a broadcast because the attempts are used up or the builder or
\* the prover failed.)
SlippageForcesReproofWithinBudget ==
    /\ ReproofBeforeBroadcast
    /\ AfterSlippage =>
          /\ (pf_pc = "broadcast") =>
                ctx.proof_regenerations <= config.proof_regen_attempts
          /\ (pf_pc = "returned") =>
                pf_result \in ReproofErrors \cup {"Err:max_attempts", "Err:proof_budget"}
          /\ (pf_pc = "returned" /\ pf_result = "Err:proof_budget") =>
                /\ ctx.proof_regenerations = config.proof_regen_attempts
                /\ calls.prove = ctx.proof_regenerations
                /\ steps = <<"build">>
                /\ calls.build = calls.prove + 1

\* the iteration after a slippage revert has rebuilt and re-proved and is
\* about to broadcast the new proof
SlippageForcesReproofWitness ==
    /\ AfterSlippage
    /\ pf_pc = "broadcast"
    /\ steps = <<"build", "prove">>
    /\ calls.broadcast = 1
    /\ ctx.proof_regenerations = 2
    /\ config.proof_regen_attempts = 2

\* C22 as stated: after a revert classified SlippageError or
\* FrontrunningProtection the kind is coerced to ProofVerificationFailure,
\* and the next iteration rebuilds the chain transition and calls the
\* prover before it broadcasts; it ends without a prover call only when
\* there is no next iteration (the attempts are used up) or the builder or
\* the program input fails.
SlippageForcesReproof ==
    /\ ReproofBeforeBroadcast
    /\ (AfterSlippage /\ pf_pc = "returned") =>
          pf_result \in ReproofErrors \cup {"Err:max_attempts"}

\* the latest broadcast ended in one of the outcomes after which the proof
\* is kept: a NonceError, GasError or UnknownRevert revert, or UnknownError
ReuseOutcome ==
    /\ main_pc = "process"
    /\ \/ tx_result.tag = "Revert"
          /\ tx_result.error_type \in {"NonceError", "GasError", "UnknownRevert"}
       \/ tx_result.tag = "UnknownError"

\* C23: proof reuse.  Inside the loop the builder runs only in an attempt
\* after the first that follows last_error_type = ProofVerificationFailure,
\* and the prover only in the first attempt (nothing proved yet) or after
\* such an error.  After a NonceError, GasError or UnknownRevert revert or
\* an UnknownError outcome, the step to the next attempt changes nothing of
\* proof_regenerations, chain_transition, public_values, block_proof_params
\* and proof_bytes and goes to the broadcast without a builder or prover
\* call, and that broadcast sends the call sent before.
ProofReuse ==
    /\ [](/\ (pf_pc \in {"rebuild", "rebuild_bde", "rebuild_locked"}) =>
                (/\ ctx.attempt >= 2
                 /\ ctx.last_error_type = Some("ProofVerificationFailure"))
          /\ (pf_pc = "prove") =>
                \/ ctx.attempt = 1 /\ ctx.proof_regenerations = 0
                \/ ctx.last_error_type = Some("ProofVerificationFailure")
          /\ (ReuseOutcome /\ pf_pc \in {"loop", "broadcast"}) =>
                /\ ctx.last_error_type # Some("ProofVerificationFailure")
                /\ last_call = Some([block_proof_params |-> ctx.block_proof_params.v,
                                     proof_bytes |-> ctx.proof_bytes])
          /\ (ReuseOutcome /\ pf_pc = "broadcast") => (steps = <<>>))
    /\ [][(ReuseOutcome /\ pf_pc = "loop" /\ pf_pc' # "returned") =>
             /\ pf_pc' = "broadcast"
             /\ ctx' = [ctx EXCEPT !.attempt = @ + 1]
             /\ calls' = calls]_vars
    /\ [][(ReuseOutcome /\ pf_pc = "broadcast" /\ pf_pc' # pf_pc) =>
             /\ last_call' = last_call
             /\ calls'.broadcast = calls.broadcast + 1
             /\ calls'.build = calls.build
             /\ calls'.prove = calls.prove]_vars

\* the attempt after a NonceError revert is about to broadcast the proof of
\* the first attempt again
ProofReuseWitness ==
    /\ main_pc = "process"
    /\ tx_result.error_type = "NonceError"
    /\ pf_pc = "broadcast"
    /\ ctx.attempt = 2
    /\ ctx.proof_regenerations = 1
    /\ calls.prove = 1
    /\ calls.broadcast = 1
    /\ steps = <<>>

\* this step is a proof step failing: the program input could not be built
\* or the prover returned an error
ProofStepFails ==
    /\ pf_pc = "prove"
    /\ pf_pc' = "returned"
    /\ pf_result' \in {"Err:program_input", "Err:prove"}

\* C24: a failure of the input construction or of the prover ends
\* process_fork with that error.  The failing proof step adds one to
\* proof_regenerations and leaves attempt, last_error, last_error_type,
\* block_proof_params, proof_bytes and chain_transition as they were (only
\* public_values can change, set before the prover is called); it makes no
\* broadcast and no sleep, and nothing is broadcast after it.
ProofFailureFrame ==
    /\ [][ProofStepFails =>
             /\ ctx'.proof_regenerations = ctx.proof_regenerations + 1
             /\ ctx'.attempt = ctx.attempt
             /\ ctx'.last_error = ctx.last_error
             /\ ctx'.last_error_type = ctx.last_error_type
             /\ ctx'.block_proof_params = ctx.block_proof_params
             /\ ctx'.proof_bytes = ctx.proof_bytes
             /\ ctx'.chain_transition = ctx.chain_transition
             /\ ctx'.public_values
                   \in {ctx.public_values,
                        Some(LightClientPublicInput(ctx.chain_transition.v))}
             /\ calls'.broadcast = calls.broadcast
             /\ calls'.sleep = calls.sleep
             /\ calls'.build = calls.build
             /\ last_call' = last_call
             /\ tx_result' = tx_result
             /\ active' = active - 1]_vars
    /\ []((pf_pc = "returned" /\ pf_result \in {"Err:program_input", "Err:prove"}) =>
             /\ ~TxIsOfThisAttempt
             /\ ctx.proof_regenerations >= 1
             /\ ctx.proof_regenerations <= config.proof_regen_attempts)
    /\ [][(pf_pc = "returned" /\ pf_result \in {"Err:program_input", "Err:prove"}) =>
             (calls' = calls \/ calls' = NoCalls)]_vars

\* the prover failed on a regeneration, in the second attempt: the proof of
\* the first attempt is still stored and attempt is still 2
ProofFailureFrameWitness ==
    /\ pf_pc = "returned"
    /\ pf_result = "Err:prove"
    /\ ctx.attempt = 2
    /\ ctx.proof_regenerations = 2
    /\ calls.prove = 2
    /\ calls.broadcast = 1
    /\ ctx.block_proof_params.some
    /\ ctx.block_proof_params.v.build = 1
    /\ ctx.public_values.v.build = 2

\* the root the task published last before its round i: the read of the
\* latest earlier round that sent, the all-zero root if there is none
LastPublishedBefore(log, i) ==
    LET S == { j \in 1..(i - 1) : log[j].sent }
    IN IF S = {} THEN ZeroRoot
       ELSE log[CHOOSE j \in S : \A k \in S : k <= j].read

\* a round of the root-watch task: its read and the match on the result
IsWatchRound == fn_out.pc = "read" /\ fn_out'.pc = "sleep"

\* C25: in each round the root-watch task publishes exactly when the read
\* succeeded with a root other than the one it published last (the
\* all-zero root before its first publication), and what it publishes is
\* that root and is then the value of the channel.  A failed read publishes
\* nothing and leaves last_root and the channel as they were, and the task
\* goes on to sleep and to its next round: it is always either reading or
\* sleeping and always has a step.
RootWatchPublishes ==
    /\ [](\A i \in 1..Len(fn_out.log) :
             fn_out.log[i].sent <=>
                (/\ fn_out.log[i].read # "Err"
                 /\ fn_out.log[i].read # LastPublishedBefore(fn_out.log, i)))
    /\ []((Len(fn_out.log) < MaxRounds) =>
             fn_out.last_root = LastPublishedBefore(fn_out.log, Len(fn_out.log) + 1))
    /\ [][(IsWatchRound /\ fn_out'.last_root # fn_out.last_root) =>
             (/\ fn_in' # "Err"
              /\ fn_out'.last_root = fn_in'
              /\ fn_out'.channel = fn_in')]_vars
    /\ [][(IsWatchRound /\ fn_out'.last_root = fn_out.last_root) =>
             fn_out'.channel = fn_out.channel]_vars
    /\ [][(IsWatchRound /\ fn_in' = "Err") =>
             (/\ fn_out'.last_root = fn_out.last_root
              /\ fn_out'.channel = fn_out.channel)]_vars
    /\ [][(fn_out.pc = "read" /\ fn_out'.pc # "read") => fn_out'.pc = "sleep"]_vars
    /\ [](fn_out.pc \in {"read", "sleep"})
    /\ [][(fn_out.pc = "sleep" /\ fn_out'.pc # "sleep") => fn_out'.pc = "read"]_vars
    /\ []ENABLED (WatchRound \/ WatchSleep)

\* a root was published, read again without a publication, a read failed,
\* and another root was published after that
RootWatchPublishesWitness ==
    /\ Len(fn_out.log) = 4
    /\ fn_out.log[1] = [read |-> "root1", sent |-> TRUE]
    /\ fn_out.log[2] = [read |-> "root1", sent |-> FALSE]
    /\ fn_out.log[3] = [read |-> "Err", sent |-> FALSE]
    /\ fn_out.log[4] = [read |-> "root2", sent |-> TRUE]
    /\ fn_out.pc = "sleep"
    /\ fn_out.channel = "root2"
    /\ fn_out.seed = "root1"

\* the call has returned
DetectReturned == fn_out.pc = "done"

\* the writes that fell before the BDE leaf-count read
EarlyWrites ==
    { i \in 1..Len(fn_in.log) : fn_in.log[i].before \in {"lc_leaf", "bde_count"} }

\* what the light client held at the CDE leaf-count read, and what the BDE
\* held at the BDE leaf-count read
LcAtCountRead == fn_in.first.lc
BdeAtCountRead ==
    IF EarlyWrites = {} THEN fn_in.first.bde
    ELSE fn_in.log[CHOOSE i \in EarlyWrites : \A j \in EarlyWrites : j <= i].bde

\* a BDE write followed a light-client write between the two count reads
BdeWroteAfterLc ==
    \E i, j \in EarlyWrites :
        i < j /\ fn_in.log[i].by = "lc" /\ fn_in.log[j].by = "bde"

\* C26 as amended: detect_fork takes the CDE and BDE read guards separately
\* for the leaf counts, the tip leaves and the hash lookup, and the
\* indexers can append between any two of these reads.  For every
\* interleaving its result is the result of the detector procedure on what
\* the LC held at the CDE leaf-count read and the BDE at the BDE leaf-count
\* read; unless a BDE write followed an LC write between these two reads,
\* that is the LC and BDE state of a single instant during the call.
SnapshotUnlessCrossed ==
    DetectReturned =>
        /\ fn_out.result = detect_fork(LcAtCountRead, BdeAtCountRead, fn_out.fail)
        /\ ~BdeWroteAfterLc =>
              \E at \in fn_in.instants :
                  /\ at.lc = LcAtCountRead
                  /\ at.bde = BdeAtCountRead
                  /\ fn_out.result = detect_fork(at.lc, at.bde, fn_out.fail)

\* MissingBlocks was found by a call during which the BDE appended a leaf
\* before its count was read and again before the lookup, and the light
\* client appended one in between
SnapshotUnlessCrossedWitness ==
    /\ DetectReturned
    /\ Len(fn_in.log) = 2
    /\ fn_in.log[1].by = "bde" /\ fn_in.log[1].before = "lc_leaf"
    /\ fn_in.log[2].by = "lc" /\ fn_in.log[2].before = "bde_count"
    /\ ~BdeWroteAfterLc
    /\ fn_out.result.tag = "MissingBlocks"

\* C26 as stated: for every interleaving with the indexers' writes, the
\* result equals the result of the detector procedure on the LC and BDE
\* state at some single instant during the call
ConsistentSnapshot ==
    DetectReturned =>
        \E at \in fn_in.instants :
            fn_out.result = detect_fork(at.lc, at.bde, fn_out.fail)

\* C27: the per-kind attempt cap returned by the classifier is honoured by
\* the submission loop: within one process_fork invocation the number of
\* broadcasts that revert with a kind the classifier retries never exceeds
\* the max_attempts of the RetryStrategy returned for that kind.
PerKindCapHonoured ==
    \A ri \in MainReverts :
        LET classified == classify_revert_error(ri)
        IN classified.strategy.should_retry =>
              reverts[classified.kind] <= classified.strategy.max_attempts

\* C28: whenever process_fork is about to broadcast,
\* 1 <= proof_regenerations <= attempt <= max_attempts and
\* proof_regenerations <= proof_regen_attempts, and chain_transition,
\* public_values and block_proof_params are all present and are those of
\* the latest build and of the latest prover call; whenever it is about to
\* run the proof step the chain transition is present.  So the unwraps of
\* lines 401, 440 and 456 find a value.
CounterInvariant ==
    /\ (main_pc = "process" /\ pf_pc = "broadcast") =>
          /\ 1 <= ctx.proof_regenerations
          /\ ctx.proof_regenerations <= ctx.attempt
          /\ ctx.attempt <= config.max_attempts
          /\ ctx.proof_regenerations <= config.proof_regen_attempts
          /\ ctx.chain_transition.some
          /\ ctx.public_values.some
          /\ ctx.block_proof_params.some
          /\ ctx.chain_transition.v.build = calls.build
          /\ ctx.public_values.v.build = calls.build
          /\ ctx.block_proof_params.v.build = calls.build
          /\ ctx.block_proof_params.v.newMmrRoot = ctx.chain_transition.v.newMmrRoot
          /\ ctx.public_values.v.newMmrRoot = ctx.chain_transition.v.newMmrRoot
          /\ calls.prove = ctx.proof_regenerations
          /\ calls.build = ctx.proof_regenerations
    /\ (main_pc = "process" /\ pf_pc = "prove") =>
          /\ ctx.chain_transition.some
          /\ ctx.chain_transition.v.build = calls.build
          /\ ctx.proof_regenerations < ctx.attempt
          /\ ctx.attempt <= config.max_attempts

\* the last attempt is about to broadcast with the whole proof budget
\* used, a proof kept from an earlier attempt
CounterInvariantWitness ==
    /\ main_pc = "process"
    /\ pf_pc = "broadcast"
    /\ ctx.attempt = config.max_attempts
    /\ ctx.proof_regenerations = config.proof_regen_attempts
    /\ ctx.proof_regenerations >= 2
    /\ ctx.proof_regenerations < ctx.attempt
    /\ steps = <<>>

\* C29: whenever the main loop reads the single-flight flag at the top of
\* an iteration the flag is false, so is_processing is never true and the
\* read is always followed by the detection, never by the skip back to the
\* select.
FlagFalseWhenRead ==
    /\ []((main_pc = "read_flag") => ~currently_processing)
    /\ [](~is_processing)
    /\ [][(main_pc = "read_flag") => (main_pc' = "detect")]_vars

\* the flag is read after an earlier processing, which got as far as the
\* catch-up wait, has set and cleared it
FlagFalseWhenReadWitness ==
    /\ main_pc = "read_flag"
    /\ expected_mmr_root # "none"
    /\ poll_i >= 1
    /\ ~currently_processing

\* the kinds classify_revert_error returns on the payloads of RevertInfo
ClassifierKinds == { classify_revert_error(ri).kind : ri \in RevertInfo }

ReturnedKinds ==
    {"ProofVerificationFailure", "NonceError", "GasError", "SlippageError",
     "InvariantViolation", "UnknownRevert"}

\* C30: classify_revert_error returns only ProofVerificationFailure,
\* NonceError, GasError, SlippageError, InvariantViolation or UnknownRevert,
\* never SimulationFailure, FrontrunningProtection, NetworkError or
\* TransientError.  So in process_fork no revert is ever classified as one
\* of those four, last_error_type is never FrontrunningProtection,
\* SimulationFailure or TransientError, a revert never leaves it at
\* NetworkError, and it becomes NetworkError only in a step whose broadcast
\* ended in UnknownError.
ClassifierRange ==
    /\ [](/\ ClassifierKinds \subseteq ReturnedKinds
          /\ tx_result.error_type \in ReturnedKinds \cup {"None"}
          /\ \A k \in RevertErrorType \ ReturnedKinds : reverts[k] = 0
          /\ ctx.last_error_type
                \in {None} \cup { Some(k) : k \in ReturnedKinds \cup {"NetworkError"} }
          /\ (ctx.last_error_type = Some("NetworkError")) => (tx_result.tag # "Revert"))
    /\ [][(ctx'.last_error_type = Some("NetworkError")
             /\ ctx.last_error_type # Some("NetworkError")) =>
             (pf_pc = "broadcast" /\ tx_result'.tag = "UnknownError")]_vars

\* an UnknownError outcome after a slippage revert: last_error_type went
\* from the coerced ProofVerificationFailure to NetworkError
ClassifierRangeWitness ==
    /\ main_pc = "process"
    /\ pf_pc = "loop"
    /\ ctx.last_error_type = Some("NetworkError")
    /\ tx_result.tag = "UnknownError"
    /\ reverts["SlippageError"] = 1
    /\ calls.broadcast = 2

====
